---- MODULE Spec2Model ----
(***************************************************************************)
(* kibadist-ui: the upgrade engine of the Button generator.                *)
(*                                                                         *)
(* The module models the command line program src/src/cli.ts (init, list,  *)
(* status, add button, upgrade button, diff button) over the persisted     *)
(* state it owns (the configuration file, the state record file, the       *)
(* base-snapshot store and the artifact files), together with the pure     *)
(* engines it calls: merge3 (a wrapper around `git merge-file`), the       *)
(* Tailwind semantic resolver, the line diff (diffLines over the LCS line  *)
(* alignment) and contractToButtonIR.                                      *)
(*                                                                         *)
(* A text is a sequence of lines, every line terminated by a newline.  A   *)
(* line is a record: what the program can tell about a line (is it a       *)
(* conflict marker, does it parse as a const string assignment, which      *)
(* tokens does the string hold) is kept, the rest of its characters is an  *)
(* opaque name.                                                            *)
(***************************************************************************)
EXTENDS Integers, Sequences, FiniteSets, TLC

----------------------------------------------------------------------------
(* Lines *)

\* A line that is neither a marker nor a const string assignment.
P(s) == [k |-> "plain", name |-> s, ind |-> 0, q |-> "", val |-> <<>>, ws |-> "canon"]

\* An empty (or whitespace-only) line.
Blank == [k |-> "blank", name |-> "", ind |-> 0, q |-> "", val |-> <<>>, ws |-> "canon"]

\* "<<<<<<< label": a line that begins with seven '<'.  The label "quoted"
\* stands for a line that holds the seven characters after other text.
Open(lab) == [k |-> "open", name |-> lab, ind |-> 0, q |-> "", val |-> <<>>, ws |-> "canon"]

\* "=======": a line of exactly seven '='.
Sep == [k |-> "sep", name |-> "", ind |-> 0, q |-> "", val |-> <<>>, ws |-> "canon"]

\* ">>>>>>> label": a line that begins with seven '>'.
Close(lab) == [k |-> "close", name |-> lab, ind |-> 0, q |-> "", val |-> <<>>, ws |-> "canon"]

\* indent, "const", name, "=", quote, value, quote, ";".  val is the value's
\* whitespace-separated tokens in order; ws says whether the line's spacing is
\* the one the resolver writes ("canon": single spaces, no trailing blanks) or
\* any other spacing the pattern accepts ("loose").
Const(ind, name, q, val, ws) == [k |-> "const", name |-> name, ind |-> ind, q |-> q, val |-> val, ws |-> ws]

\* The tokens that hold one of the characters - : [ ]
TwTokens == {"inline-flex", "rounded-md", "rounded-lg", "transition-colors"}

Max(a, b) == IF a >= b THEN a ELSE b

Min(a, b) == IF a <= b THEN a ELSE b

----------------------------------------------------------------------------
(* The LCS line alignment (computeLCS).  Index pairs are 1-based here, the *)
(* source's are 0-based.                                                   *)

\* One row of the DP table, cells 0..n kept at positions 1..n+1; acc holds the
\* cells built so far, prev is the row above.
RECURSIVE DpRow(_, _, _, _)
DpRow(x, newLines, prev, acc) ==
  IF Len(acc) = Len(newLines) + 1 THEN acc
  ELSE LET j == Len(acc)
           c == IF x = newLines[j] THEN prev[j] + 1
                ELSE Max(prev[j + 1], acc[j])
       IN  DpRow(x, newLines, prev, Append(acc, c))

\* The DP table, rows 0..m kept at positions 1..m+1.
RECURSIVE DpTable(_, _, _)
DpTable(oldLines, newLines, rows) ==
  IF Len(rows) = Len(oldLines) + 1 THEN rows
  ELSE DpTable(oldLines, newLines,
               Append(rows, DpRow(oldLines[Len(rows)], newLines, rows[Len(rows)], <<0>>)))

\* A backtrack that leaves the cell towards the smaller neighbour.
RECURSIVE LcsBackWrongWay(_, _, _, _, _, _)
LcsBackWrongWay(oldLines, newLines, dp, i, j, acc) ==
  IF i = 0 \/ j = 0 THEN acc
  ELSE IF oldLines[i] = newLines[j]
       THEN LcsBackWrongWay(oldLines, newLines, dp, i - 1, j - 1, <<<<i, j>>>> \o acc)
       ELSE IF dp[i][j + 1] < dp[i + 1][j]
            THEN LcsBackWrongWay(oldLines, newLines, dp, i - 1, j, acc)
            ELSE LcsBackWrongWay(oldLines, newLines, dp, i, j - 1, acc)

\* The backtrack from cell (i, j): acc holds the pairs found so far.
RECURSIVE LcsBack(_, _, _, _, _, _)
LcsBack(oldLines, newLines, dp, i, j, acc) ==
  IF i = 0 \/ j = 0 THEN acc
  ELSE IF oldLines[i] = newLines[j]
       THEN LcsBack(oldLines, newLines, dp, i - 1, j - 1, <<<<i, j>>>> \o acc)
       ELSE IF dp[i][j + 1] > dp[i + 1][j]
            THEN LcsBack(oldLines, newLines, dp, i - 1, j, acc)
            ELSE LcsBack(oldLines, newLines, dp, i, j - 1, acc)

ComputeLCS(oldLines, newLines) ==
  LcsBack(oldLines, newLines,
          DpTable(oldLines, newLines, << [j \in 1..(Len(newLines) + 1) |-> 0] >>),
          Len(oldLines), Len(newLines), <<>>)

----------------------------------------------------------------------------
(* The diff engine (diffLines, groupIntoHunks, diffStats).  A text here is *)
(* [lines, nl]: its lines and whether the last one ends with a newline.    *)

\* The empty string.
EmptyLine == P("")

\* text.split("\n"): the lines, and one empty string more after a final
\* newline; the empty text gives one empty string.
Split(t) == IF t.nl \/ t.lines = <<>> THEN t.lines \o <<EmptyLine>> ELSE t.lines

DiffLine(type, content, lineNumber) ==
  [type |-> type, content |-> content, lineNumber |-> lineNumber]

\* The lines from..to of `lines`, each as a diff line of the type, numbered by
\* its place in `lines`.
RECURSIVE Emit(_, _, _, _)
Emit(type, lines, from, to) ==
  IF from > to THEN <<>>
  ELSE <<DiffLine(type, lines[from], from)>> \o Emit(type, lines, from + 1, to)

\* The while loop of diffLines: oldIdx, newIdx and lcsIdx are the next old
\* line, new line and pair to handle (1-based).
RECURSIVE DiffWalk(_, _, _, _, _, _)
DiffWalk(oldLines, newLines, lcs, oldIdx, newIdx, lcsIdx) ==
  IF oldIdx > Len(oldLines) /\ newIdx > Len(newLines) THEN <<>>
  ELSE IF lcsIdx <= Len(lcs) /\ oldIdx <= Len(oldLines) /\ newIdx <= Len(newLines)
       THEN Emit("remove", oldLines, oldIdx, lcs[lcsIdx][1] - 1)
            \o Emit("add", newLines, newIdx, lcs[lcsIdx][2] - 1)
            \o <<DiffLine("context", newLines[lcs[lcsIdx][2]], lcs[lcsIdx][2])>>
            \o DiffWalk(oldLines, newLines, lcs,
                        lcs[lcsIdx][1] + 1, lcs[lcsIdx][2] + 1, lcsIdx + 1)
       ELSE Emit("remove", oldLines, oldIdx, Len(oldLines))
            \o Emit("add", newLines, newIdx, Len(newLines))

\* The diff of two line arrays before grouping.
Alignment(oldLines, newLines) ==
  DiffWalk(oldLines, newLines, ComputeLCS(oldLines, newLines), 1, 1, 1)

\* The places of the diff lines that are no context, in order.
RECURSIVE ChangeIndices(_, _)
ChangeIndices(diff, idx) ==
  IF idx > Len(diff) THEN <<>>
  ELSE (IF diff[idx].type # "context" THEN <<idx>> ELSE <<>>)
       \o ChangeIndices(diff, idx + 1)

\* A hunk whose slice leaves out the line at hunkEnd.
HunkSliceExclusive(diff, hunkStart, hunkEnd) ==
  [startLine |-> diff[hunkStart].lineNumber,
   lines |-> SubSeq(diff, hunkStart, hunkEnd - 1)]

\* diff.slice(hunkStart, hunkEnd + 1) and the number of its first line
Hunk(diff, hunkStart, hunkEnd) ==
  [startLine |-> diff[hunkStart].lineNumber, lines |-> SubSeq(diff, hunkStart, hunkEnd)]

\* A grouping that joins two windows only when they overlap, not when the
\* later one begins right after the end of the earlier one.
RECURSIVE GroupFromOverlapOnly(_, _, _, _, _, _)
GroupFromOverlapOnly(diff, contextLines, changeIndices, i, hunkStart, hunkEnd) ==
  IF i > Len(changeIndices) THEN <<Hunk(diff, hunkStart, hunkEnd)>>
  ELSE IF Max(1, changeIndices[i] - contextLines) <= hunkEnd
       THEN GroupFromOverlapOnly(diff, contextLines, changeIndices, i + 1, hunkStart,
                                 Min(Len(diff), changeIndices[i] + contextLines))
       ELSE <<Hunk(diff, hunkStart, hunkEnd)>>
            \o GroupFromOverlapOnly(diff, contextLines, changeIndices, i + 1,
                                    Max(1, changeIndices[i] - contextLines),
                                    Min(Len(diff), changeIndices[i] + contextLines))

\* The for loop of groupIntoHunks from change i on, the current window being
\* hunkStart..hunkEnd, and the push of the last hunk.
RECURSIVE GroupFrom(_, _, _, _, _, _)
GroupFrom(diff, contextLines, changeIndices, i, hunkStart, hunkEnd) ==
  IF i > Len(changeIndices) THEN <<Hunk(diff, hunkStart, hunkEnd)>>
  ELSE IF Max(1, changeIndices[i] - contextLines) <= hunkEnd + 1
       THEN GroupFrom(diff, contextLines, changeIndices, i + 1, hunkStart,
                      Min(Len(diff), changeIndices[i] + contextLines))
       ELSE <<Hunk(diff, hunkStart, hunkEnd)>>
            \o GroupFrom(diff, contextLines, changeIndices, i + 1,
                         Max(1, changeIndices[i] - contextLines),
                         Min(Len(diff), changeIndices[i] + contextLines))

\* A grouping that makes one hunk of a diff without changes.
GroupIntoHunksKeepsContext(diff, contextLines) ==
  LET Group(changeIndices) ==
        IF changeIndices = <<>> THEN <<Hunk(diff, 1, Len(diff))>>
        ELSE GroupFrom(diff, contextLines, changeIndices, 2,
                       Max(1, changeIndices[1] - contextLines),
                       Min(Len(diff), changeIndices[1] + contextLines))
  IN  Group(ChangeIndices(diff, 1))

GroupIntoHunks(diff, contextLines) ==
  LET Group(changeIndices) ==
        IF changeIndices = <<>> THEN <<>>
        ELSE GroupFrom(diff, contextLines, changeIndices, 2,
                       Max(1, changeIndices[1] - contextLines),
                       Min(Len(diff), changeIndices[1] + contextLines))
  IN  Group(ChangeIndices(diff, 1))

DiffLines(oldText, newText, contextLines) ==
  GroupIntoHunks(Alignment(Split(oldText), Split(newText)), contextLines)

\* The number of lines of a type in the hunks.
RECURSIVE CountType(_, _)
CountType(hunks, type) ==
  IF hunks = <<>> THEN 0
  ELSE Cardinality({n \in 1..Len(Head(hunks).lines) : Head(hunks).lines[n].type = type})
       + CountType(Tail(hunks), type)

DiffStats(hunks) ==
  [additions |-> CountType(hunks, "add"), deletions |-> CountType(hunks, "remove")]

----------------------------------------------------------------------------
(* `git merge-file -p local base incoming`: the external three-way merge   *)
(* that merge3 runs.  It walks the two alignments of base: the base lines  *)
(* matched on both sides are kept, and each region between two of them is  *)
(* taken from the side that changed it, or becomes a conflict when both    *)
(* sides changed it differently.  A conflict loses the lines its two sides *)
(* begin or end with in common, and two conflicts with at most             *)
(* MaxJoinGap lines (or no letter or digit) between them are made one.     *)
(* The exit status is the number of conflicts, at most 127.                *)

\* The index paired with base index b in alignment m, 0 when b is unmatched.
Partner(m, b) ==
  IF \E p \in 1..Len(m) : m[p][1] = b
  THEN m[CHOOSE p \in 1..Len(m) : m[p][1] = b][2]
  ELSE 0

\* The base lines matched in local and in incoming, as <<base, local, incoming>>
\* index triples in base order, from base index b on.
RECURSIVE StableFrom(_, _, _, _)
StableFrom(mL, mI, b, n) ==
  IF b > n THEN <<>>
  ELSE IF Partner(mL, b) > 0 /\ Partner(mI, b) > 0
       THEN <<<<b, Partner(mL, b), Partner(mI, b)>>>> \o StableFrom(mL, mI, b + 1, n)
       ELSE StableFrom(mL, mI, b + 1, n)

\* A piece of the merge: lines kept ("text"), lines one side changed
\* ("change"), or the two sides of a conflict.
Seg(t, l, i) == [t |-> t, l |-> l, i |-> i]

\* The number of lines two sides begin with in common.
PrefixLen(l, i) ==
  CHOOSE p \in 0..Min(Len(l), Len(i)) :
    /\ SubSeq(l, 1, p) = SubSeq(i, 1, p)
    /\ p = Min(Len(l), Len(i)) \/ l[p + 1] # i[p + 1]

\* The number of lines two sides end with in common, after p common lines at
\* their beginning.
SuffixLen(l, i, p) ==
  CHOOSE q \in 0..(Min(Len(l), Len(i)) - p) :
    /\ SubSeq(l, Len(l) - q + 1, Len(l)) = SubSeq(i, Len(i) - q + 1, Len(i))
    /\ q = Min(Len(l), Len(i)) - p \/ l[Len(l) - q] # i[Len(i) - q]

\* A faulty merge of a region that makes a conflict of every region both sides
\* changed, their replacements being the same or not.
MergeChunkConflictsOnSame(b, l, i) ==
  IF l = b /\ i = b THEN <<>>
  ELSE IF l = b THEN <<Seg("change", i, <<>>)>>
  ELSE IF i = b THEN <<Seg("change", l, <<>>)>>
  ELSE <<Seg("conflict", l, i)>>

\* The merge of one region between two stable lines.
MergeChunk(b, l, i) ==
  IF l = b /\ i = b THEN <<>>
  ELSE IF l = b THEN <<Seg("change", i, <<>>)>>
  ELSE IF i = b \/ l = i THEN <<Seg("change", l, <<>>)>>
  ELSE IF l = <<>> \/ i = <<>> THEN <<Seg("conflict", l, i)>>
  ELSE LET p == PrefixLen(l, i)
           q == SuffixLen(l, i, p)
       IN  (IF p > 0 THEN <<Seg("text", SubSeq(l, 1, p), <<>>)>> ELSE <<>>)
           \o <<Seg("conflict", SubSeq(l, p + 1, Len(l) - q),
                    SubSeq(i, p + 1, Len(i) - q))>>
           \o (IF q > 0 THEN <<Seg("text", SubSeq(l, Len(l) - q + 1, Len(l)), <<>>)>>
               ELSE <<>>)

\* The walk over the anchors a[k], a[k+1], ...: the region before each anchor,
\* then the anchor's line (the last anchor is the end of the three texts).
RECURSIVE Diff3Walk(_, _, _, _, _)
Diff3Walk(base, local, incoming, a, k) ==
  IF k >= Len(a) THEN <<>>
  ELSE LET lo == a[k]
           hi == a[k + 1]
       IN  MergeChunk(SubSeq(base, lo[1] + 1, hi[1] - 1),
                      SubSeq(local, lo[2] + 1, hi[2] - 1),
                      SubSeq(incoming, lo[3] + 1, hi[3] - 1))
           \o (IF hi[1] <= Len(base) THEN <<Seg("text", <<base[hi[1]]>>, <<>>)>>
               ELSE <<>>)
           \o Diff3Walk(base, local, incoming, a, k + 1)

\* The lines of the pieces k..j.
RECURSIVE LinesOf(_, _, _)
LinesOf(segs, k, j) ==
  IF k > j THEN <<>> ELSE segs[k].l \o LinesOf(segs, k + 1, j)

\* The most lines between two conflicts that are made one.
MaxJoinGap == 3

\* A line with a letter or a digit.
HasAlnum(line) == line.k \notin {"blank", "sep"}

\* Pieces k and j are conflicts with kept lines only between them, few enough
\* or without a letter or digit.
Joins(segs, k, j) ==
  /\ k < j
  /\ segs[k].t = "conflict" /\ segs[j].t = "conflict"
  /\ \A m \in (k + 1)..(j - 1) : segs[m].t = "text"
  /\ LET gap == LinesOf(segs, k + 1, j - 1)
     IN  Len(gap) <= MaxJoinGap \/ \A n \in 1..Len(gap) : ~HasAlnum(gap[n])

\* Conflicts close to each other are made one, the lines between them on both
\* sides.
\* Pieces k..j made one conflict.
Joined(segs, k, j, gap) ==
  SubSeq(segs, 1, k - 1)
  \o <<Seg("conflict", segs[k].l \o gap \o segs[j].l, segs[k].i \o gap \o segs[j].i)>>
  \o SubSeq(segs, j + 1, Len(segs))

RECURSIVE Simplify(_)
Simplify(segs) ==
  IF \E k, j \in 1..Len(segs) : Joins(segs, k, j)
  THEN LET First(k) == LET Next(j) == Joined(segs, k, j, LinesOf(segs, k + 1, j - 1))
                       IN  Next(CHOOSE j \in 1..Len(segs) : Joins(segs, k, j))
       IN  Simplify(First(CHOOSE k \in 1..Len(segs) :
                            /\ \E j \in 1..Len(segs) : Joins(segs, k, j)
                            /\ \A m \in 1..(k - 1) :
                                 \A j \in 1..Len(segs) : ~Joins(segs, m, j)))
  ELSE segs

\* The output text of the pieces, a conflict between its three markers.
RECURSIVE Render(_)
Render(segs) ==
  IF segs = <<>> THEN <<>>
  ELSE (IF Head(segs).t = "conflict"
        THEN <<Open("LOCAL")>> \o Head(segs).l \o <<Sep>> \o Head(segs).i
             \o <<Close("INCOMING")>>
        ELSE Head(segs).l)
       \o Render(Tail(segs))

GitMergeFile(local, base, incoming) ==
  LET Out(segs) ==
        [stdout |-> Render(segs),
         status |-> Min(Cardinality({k \in 1..Len(segs) : segs[k].t = "conflict"}), 127)]
      Walk(a) == Out(Simplify(Diff3Walk(base, local, incoming, a, 1)))
      Align(mL, mI) ==
        Walk(<<<<0, 0, 0>>>> \o StableFrom(mL, mI, 1, Len(base))
             \o <<<<Len(base) + 1, Len(local) + 1, Len(incoming) + 1>>>>)
  IN  Align(ComputeLCS(base, local), ComputeLCS(base, incoming))

----------------------------------------------------------------------------
(* The Tailwind semantic resolver *)

\* The pattern of parseConstAssignment: null (FALSE here) or the captures.
ParsesAsConst(line) == line.k = "const"

\* A token holds one of the characters - : [ ] also with a quote in front
\* (written here as the quote's name in front of the token; the quotes are the
\* double quote, the single quote and the backtick).
LooksLikeTailwind(val) ==
  \E n \in 1..Len(val) :
    \/ val[n] \in TwTokens
    \/ \E q \in {"dq", "sq", "bq"}, t \in TwTokens : val[n] = q \o t

\* b's tokens not in seen, in order, each once.
RECURSIVE NotSeen(_, _)
NotSeen(b, seen) ==
  IF b = <<>> THEN <<>>
  ELSE IF Head(b) \in seen THEN NotSeen(Tail(b), seen)
       ELSE <<Head(b)>> \o NotSeen(Tail(b), seen \cup {Head(b)})

\* A union that appends all of b's tokens.
UnionTokensAppendsAll(a, b) == a \o b

UnionTokens(a, b) == a \o NotSeen(b, {a[n] : n \in 1..Len(a)})

\* Seven '<' as a token of a string value.
OpenMarker == "<<<<<<<"

\* String.includes("<<<<<<<") on one line: a marker line, or an assignment
\* whose string value holds the seven characters.
HasOpenMarker(line) ==
  \/ line.k = "open"
  \/ line.k = "const" /\ \E n \in 1..Len(line.val) : line.val[n] = OpenMarker

IncludesOpenMarker(text) == \E n \in 1..Len(text) : HasOpenMarker(text[n])

\* trimEnd() of a side: the trailing blank lines go (the trailing blanks of the
\* last line that stays go too: they are part of ws, which parsing ignores).
RECURSIVE TrimEnd(_)
TrimEnd(side) ==
  IF side = <<>> THEN <<>>
  ELSE IF side[Len(side)].k = "blank" THEN TrimEnd(SubSeq(side, 1, Len(side) - 1))
       ELSE side

\* A callback that does not compare the two names.
ResolveBlockIgnoresNames(full, a, b) ==
  LET aTrim == TrimEnd(a)
      bTrim == TrimEnd(b)
  IN  IF Len(aTrim) # 1 \/ Len(bTrim) # 1 THEN [out |-> full, changed |-> FALSE]
      ELSE IF ~ParsesAsConst(aTrim[1]) \/ ~ParsesAsConst(bTrim[1])
           THEN [out |-> full, changed |-> FALSE]
      ELSE IF ~LooksLikeTailwind(aTrim[1].val) /\ ~LooksLikeTailwind(bTrim[1].val)
           THEN [out |-> full, changed |-> FALSE]
      ELSE [out |-> <<Const(aTrim[1].ind, aTrim[1].name, aTrim[1].q,
                            UnionTokens(aTrim[1].val, bTrim[1].val), "canon")>>,
            changed |-> TRUE]

\* The replace callback for one matched block: `full` is the matched lines.
ResolveBlock(full, a, b) ==
  LET aTrim == TrimEnd(a)
      bTrim == TrimEnd(b)
  IN  IF Len(aTrim) # 1 \/ Len(bTrim) # 1 THEN [out |-> full, changed |-> FALSE]
      ELSE IF ~ParsesAsConst(aTrim[1]) \/ ~ParsesAsConst(bTrim[1])
           THEN [out |-> full, changed |-> FALSE]
      ELSE IF aTrim[1].name # bTrim[1].name THEN [out |-> full, changed |-> FALSE]
      ELSE IF ~LooksLikeTailwind(aTrim[1].val) /\ ~LooksLikeTailwind(bTrim[1].val)
           THEN [out |-> full, changed |-> FALSE]
      ELSE [out |-> <<Const(aTrim[1].ind, aTrim[1].name, aTrim[1].q,
                            UnionTokens(aTrim[1].val, bTrim[1].val), "canon")>>,
            changed |-> TRUE]

\* The least index in from..to whose line satisfies kind k, 0 when none.  The
\* pattern finds "<<<<<<<" anywhere in a line, "=======" as a whole line and
\* ">>>>>>>" at the beginning of a line.
FirstOfKind(text, k, from, to) ==
  LET IsKind(line) == IF k = "open" THEN HasOpenMarker(line) ELSE line.k = k
  IN  IF \E n \in from..to : IsKind(text[n])
      THEN CHOOSE n \in from..to :
             IsKind(text[n]) /\ \A m \in from..(n - 1) : ~IsKind(text[m])
      ELSE 0

\* The line that a match leaves when it opens inside the string value of an
\* assignment and is replaced: the assignment up to the marker, then the line
\* written.  It is an assignment again when the two quotes are the same
\* character (the value then runs to the quote of the line written).
CutAndWritten(opener, written) ==
  LET p == CHOOSE n \in 1..Len(opener.val) :
             opener.val[n] = OpenMarker /\ \A m \in 1..(n - 1) : opener.val[m] # OpenMarker
  IN  IF written.q = opener.q
      THEN Const(opener.ind, opener.name, opener.q,
                 SubSeq(opener.val, 1, p - 1)
                 \o <<"const", written.name, "=", written.q \o Head(written.val)>>
                 \o Tail(written.val),
                 opener.ws)
      ELSE P("cut+resolved")

\* What String.replace puts in the place of a match: the callback's result,
\* after the text that stands in front of the marker on the opening line.
Written(opener, r) ==
  IF ~r.changed THEN r.out
  ELSE IF opener.k = "const" THEN <<CutAndWritten(opener, r.out[1])>>
  ELSE IF opener.name = "quoted" THEN <<P("quoted+resolved")>>
  ELSE r.out

\* The global replace of conflictRe from line `pos` on (a match that opens
\* after other text of its line leaves that text in front of the line written,
\* which is then no assignment).  A match opens at the
\* first line holding the opening marker, takes as separator the first "======="
\* line at least two lines further, and as closing marker the first ">>>>>>>"
\* line at least two lines after the separator that is followed by a newline
\* (nl: the text's last line is newline-terminated).  matches: the lines of
\* the three markers of each match, the callback's invocations.
RECURSIVE ResolveFrom(_, _, _)
ResolveFrom(text, nl, pos) ==
  LET n == Len(text)
      Replaced(o, s, c, r, rest) ==
        [out |-> SubSeq(text, pos, o - 1)
                 \o Written(text[o], r)
                 \o rest.out,
         changed |-> r.changed \/ rest.changed,
         matches |-> {<<o, s, c>>} \cup rest.matches]
      Match(o, s, c) ==
        IF c = 0 THEN [out |-> SubSeq(text, pos, n), changed |-> FALSE, matches |-> {}]
        ELSE Replaced(o, s, c,
                      ResolveBlock(SubSeq(text, o, c), SubSeq(text, o + 1, s - 1),
                                   SubSeq(text, s + 1, c - 1)),
                      ResolveFrom(text, nl, c + 1))
      FromSep(o, s) ==
        Match(o, s, IF s = 0 THEN 0
                    ELSE FirstOfKind(text, "close", s + 2, IF nl THEN n ELSE n - 1))
      FromOpen(o) == FromSep(o, IF o = 0 THEN 0 ELSE FirstOfKind(text, "sep", o + 2, n))
  IN  FromOpen(FirstOfKind(text, "open", pos, n))

\* A resolver that also drops the empty lines a text ends with.
ResolveTrimsText(text, nl) ==
  LET Result(r) == [text |-> TrimEnd(r.out), changed |-> r.changed,
                    stillHasConflicts |-> IncludesOpenMarker(r.out)]
  IN  Result(ResolveFrom(text, nl, 1))

ResolveTailwindConstStringConflicts(text, nl) ==
  LET Result(r) == [text |-> r.out, changed |-> r.changed,
                    stillHasConflicts |-> IncludesOpenMarker(r.out)]
  IN  Result(ResolveFrom(text, nl, 1))

----------------------------------------------------------------------------
(* merge3 *)

\* The exit status on which merge3 throws "git merge-file failed".
FailStatus == 2

\* gitRuns: whether spawnSync could run git (res.error is unset).
Merge3(base, local, incoming, semantic, gitRuns) ==
  LET Resolved3(res, r) ==
        [threw |-> FALSE, mergedText |-> r.text, hasConflicts |-> r.stillHasConflicts,
         status |-> res.status, gitRan |-> gitRuns]
      Return(res, has) ==
        IF ~gitRuns \/ res.status = FailStatus
        THEN [threw |-> TRUE, mergedText |-> <<>>, hasConflicts |-> FALSE,
              status |-> res.status, gitRan |-> gitRuns]
        ELSE IF has /\ semantic = "tailwind"
             THEN Resolved3(res, ResolveTailwindConstStringConflicts(res.stdout, TRUE))
             ELSE [threw |-> FALSE, mergedText |-> res.stdout,
                   hasConflicts |-> has, status |-> res.status, gitRan |-> gitRuns]
      Spawned(res) == Return(res, IncludesOpenMarker(res.stdout))
  IN  Spawned(GitMergeFile(local, base, incoming))

----------------------------------------------------------------------------
(* Contracts, IR and generators *)

\* The contract versions shipped with the tool, in listButtonVersions' order.
Versions == <<"1.0.0", "1.1.0">>

VersionSet == {Versions[n] : n \in 1..Len(Versions)}

LatestVersion == Versions[Len(Versions)]

\* The versions a command line may name: the shipped ones and one that has no
\* contract file.
ArgVersions == VersionSet \cup {"9.9.9"}

Styles == {"tailwind", "css-modules"}

OutDirs == {"ui"}

ArtifactNames == {"Button.tsx", "Button.module.css"}

\* A faulty contract store that has a file for every version asked for.
ContractExistsAlways(version) == TRUE

\* loadButtonContract: readFileSync throws ENOENT when the version has no file.
ContractExists(version) == version \in VersionSet

\* An optional field of a contract: None when the field is not there, Some(v)
\* when it holds v.
None == <<>>

Some(v) == <<v>>

\* obj?.field
Chain(opt, field) == IF opt = None THEN None ELSE opt[1][field]

\* value ?? fallback
Coalesce(opt, fallback) == IF opt = None THEN fallback ELSE opt[1]

\* A faulty switch that is on only for a prop that declares a default.
DeclaredWithDefault(opt) == opt # None /\ opt[1].default # None

\* Boolean(p.loading), of an optional object
Declared(opt) == opt # None

\* Boolean(contract.a11y?.loadingDisables), of an optional boolean
BooleanOf(opt) == opt # None /\ opt[1]

\* {}, the props of a contract without props
NoProps == [variant |-> None, size |-> None, disabled |-> None, loading |-> None]

\* The contract of a shipped version: 1.1.0 declares the loading prop and the
\* busy attribute, 1.0.0 does not.
LoadButtonContract(version) ==
  [name |-> "Button", version |-> version, element |-> "button",
   props |-> Some([variant |-> Some([default |-> Some("solid")]),
                   size |-> Some([default |-> Some("md")]),
                   disabled |-> Some([default |-> Some(FALSE)]),
                   loading |-> IF version = "1.1.0" THEN Some([default |-> Some(FALSE)])
                               ELSE None]),
   a11y |-> Some([defaultType |-> Some("button"),
                  busyAttribute |-> IF version = "1.1.0" THEN Some("aria-busy") ELSE None,
                  loadingDisables |-> IF version = "1.1.0" THEN Some(TRUE) ELSE None])]

ContractToButtonIR(contract) ==
  LET p == Coalesce(contract.props, NoProps)
  IN  [name |-> contract.name,
       version |-> contract.version,
       element |-> contract.element,
       hasLoading |-> Declared(p.loading),
       defaults |->
         [variant |-> Coalesce(Chain(p.variant, "default"), "solid"),
          size |-> Coalesce(Chain(p.size, "default"), "md"),
          disabled |-> Coalesce(Chain(p.disabled, "default"), FALSE),
          loading |-> Coalesce(Chain(p.loading, "default"), FALSE)],
       a11y |->
         [defaultType |-> Coalesce(Chain(contract.a11y, "defaultType"), "button"),
          busyAttribute |-> Coalesce(Chain(contract.a11y, "busyAttribute"), "aria-busy"),
          loadingDisables |-> BooleanOf(Chain(contract.a11y, "loadingDisables"))]]

UpstreamBase(v) ==
  IF v = "1.0.0" THEN <<"inline-flex", "rounded-md">>
  ELSE <<"inline-flex", "rounded-md", "transition-colors">>

\* Button.tsx of the Tailwind adapter, one line for each region a contract
\* version changes and the lines the template has between two regions (four
\* stand for the four or more it has): the prop types, cn() and the head of
\* the class recipe, the recipe's `const base = "..."` line, the rest of the
\* recipe, the component body, its tail, and the spinner note that only a
\* contract with loading gets.
ButtonTailwindFiles(ir) ==
  << [name |-> "Button.tsx",
      content |->
        << P(IF ir.hasLoading THEN "types+loading" ELSE "types"),
           P("types-end"), P("cn"), P("classes"), P("comment"),
           Const(2, "base", "dq", UpstreamBase(ir.version), "canon"),
           P("variant"), P("size"), P("disabled"), P("return-cn"),
           P(IF ir.hasLoading THEN "render+loading" ELSE "render"),
           P("span"), P("rightIcon"), P("button-end"), P("displayName") >>
        \o (IF ir.hasLoading THEN <<P("note")>> ELSE <<>>)] >>

\* Button.tsx and Button.module.css of the CSS Modules adapter, in the same
\* way: the prop types, the lines down to the component, the component body
\* and its tail; the .base rule, the variant, size, disabled and content
\* rules, and the spinner rules of a contract with loading.
ButtonCssModulesFiles(ir) ==
  << [name |-> "Button.tsx",
      content |->
        << P(IF ir.hasLoading THEN "types+loading" ELSE "types"),
           P("types-end"), P("cn"), P("cn-body"), P("forwardRef"),
           P(IF ir.hasLoading THEN "render-css+loading" ELSE "render-css"),
           P("displayName") >>],
     [name |-> "Button.module.css",
      content |->
        << P(IF ir.version = "1.0.0" THEN "css-base-1.0.0" ELSE "css-base-1.1.0"),
           P("css-variants"), P("css-sizes"), P("css-disabled"), P("css-content") >>
        \o (IF ir.hasLoading THEN <<P("css-spinner")>> ELSE <<>>)] >>

\* The files of a contract in a style; each file's relPath is
\* outDir/button/name.
GenerateButton(ir, style) ==
  IF style = "css-modules" THEN ButtonCssModulesFiles(ir) ELSE ButtonTailwindFiles(ir)

GeneratedFor(version, style) ==
  GenerateButton(ContractToButtonIR(LoadButtonContract(version)), style)

----------------------------------------------------------------------------
(* Persisted state *)

VARIABLES
  cfg,      \* kibadist-ui.config.json: [exists, outDir, style]
  st,       \* .kibadist-ui/state.json: [exists, button]
  base,     \* .kibadist-ui/base/button/<version>/<name>: text or Absent
  files,    \* <outDir>/button/<name>: text or Absent
  pc,       \* where the running command is: "idle" when none runs
  run,      \* the running (or last) command and its locals
  results,  \* the merge3 result of each artifact merged by the running upgrade
  outcome,  \* how the last command ended
  pre,      \* the persisted state when the running (or last) command started
  log,      \* the persisted writes of the running (or last) command, in order
  nSteps,   \* commands run and user edits made so far
  call      \* a call of one of the pure engines on its own: inputs and result

vars == <<cfg, st, base, files, pc, run, results, outcome, pre, log, nSteps, call>>

\* Commands and user edits in one behaviour.
MaxSteps == 4

\* No file at the path.
Absent == <<[k |-> "absent", name |-> "", ind |-> 0, q |-> "", val |-> <<>>, ws |-> "canon"]>>

NoInst == [version |-> "none", style |-> "none", outDir |-> "none"]

DefaultConfig == [exists |-> TRUE, outDir |-> "ui", style |-> "tailwind"]

\* loadConfig
LoadConfig(c) == IF c.exists THEN c ELSE DefaultConfig

\* loadState().installed.button
Installed(s) == IF s.exists THEN s.button ELSE NoInst

\* A faulty ensureInitFiles that writes the empty state record whether or not
\* the file exists.
EnsureStAlways(s) == [exists |-> TRUE, button |-> NoInst]

\* ensureInitFiles: the files it leaves and the writes it makes.
EnsureCfg(c) == IF c.exists THEN c ELSE DefaultConfig

EnsureSt(s) == IF s.exists THEN s ELSE [exists |-> TRUE, button |-> NoInst]

W(kind, ver, name) == [kind |-> kind, ver |-> ver, name |-> name]

EnsureLog(c, s) ==
  (IF c.exists THEN <<>> ELSE <<W("config", "", "")>>)
  \o (IF s.exists THEN <<>> ELSE <<W("stateInit", "", "")>>)

\* The target version of the incomplete upgrade whose conflicts the user has
\* just resolved; "none" after any other step.
ResolvedFor == IF run.cmd = "user" /\ outcome = "resolved" THEN run.to ELSE "none"

Snapshot ==
  [cfg |-> cfg, st |-> st, base |-> base, files |-> files, resolvedFor |-> ResolvedFor]

NoRun == [cmd |-> "none", from |-> "none", to |-> "none", style |-> "none",
          outDir |-> "none", i |-> 0, anyConflicts |-> FALSE, err |-> "none"]

\* No engine is called on its own.
NoCall == [fn |-> "none", args |-> <<>>, done |-> TRUE, ret |-> <<>>]

\* The directory before any command has run.
FreshDirectory ==
  /\ cfg = [exists |-> FALSE, outDir |-> "none", style |-> "none"]
  /\ st = [exists |-> FALSE, button |-> NoInst]
  /\ base = [key \in VersionSet \X ArtifactNames |-> Absent]
  /\ files = [key \in OutDirs \X ArtifactNames |-> Absent]
  /\ pc = "idle"
  /\ run = NoRun
  /\ results = <<>>
  /\ outcome = "none"
  /\ pre = [cfg |-> cfg, st |-> st, base |-> base, files |-> files,
            resolvedFor |-> "none"]
  /\ log = <<>>
  /\ nSteps = 0

Init ==
  /\ FreshDirectory
  /\ call = NoCall

----------------------------------------------------------------------------
(* Helpers of the commands *)

Emits(gen, name) == \E n \in 1..Len(gen) : gen[n].name = name

ContentOf(gen, name) == gen[CHOOSE n \in 1..Len(gen) : gen[n].name = name].content

\* A faulty artifact write that keeps a file that is already there.
WriteArtifactsKeepsExisting(fs, gen, outDir) ==
  [key \in DOMAIN fs |->
     IF key[1] = outDir /\ Emits(gen, key[2]) /\ fs[key] = Absent
     THEN ContentOf(gen, key[2]) ELSE fs[key]]

\* writeFile(<cwd>/<outDir>/button/<name>, content) for every generated file.
WriteArtifacts(fs, gen, outDir) ==
  [key \in DOMAIN fs |->
     IF key[1] = outDir /\ Emits(gen, key[2]) THEN ContentOf(gen, key[2]) ELSE fs[key]]

\* A faulty snapshot write that keys the snapshots by the latest version rather
\* than by the version generated.
WriteSnapshotsAtLatest(bs, gen, version, n) ==
  [key \in DOMAIN bs |->
     IF key[1] = LatestVersion /\ \E m \in 1..n : gen[m].name = key[2]
     THEN ContentOf(gen, key[2]) ELSE bs[key]]

\* writeFile(BASE_DIR/button/<version>/<basename>, content) for the first n
\* generated files.
WriteSnapshots(bs, gen, version, n) ==
  [key \in DOMAIN bs |->
     IF key[1] = version /\ \E m \in 1..n : gen[m].name = key[2]
     THEN ContentOf(gen, key[2]) ELSE bs[key]]

\* The writes of addButton's loop: per file, the artifact then its snapshot.
InstallLog(gen, version) ==
  [n \in 1..(2 * Len(gen)) |->
     IF n % 2 = 1 THEN W("file", "", gen[(n + 1) \div 2].name)
     ELSE W("snapshot", version, gen[n \div 2].name)]

\* A faulty flag test that never sees --dry-run.
DryRunNeverSet(flag) == FALSE

\* const dryRun = args["dry-run"] === true
DryRun(flag) == flag

\* The outcomes of die, dieWithContext and process.exit(1).
Died ==
  {"notInstalled", "missingTo", "alreadyInstalled", "missingLocal", "missingBase",
   "notInstalledNoFrom", "unknownVersion"}

\* The outcomes of an error thrown out of a command: the promise of the
\* command is rejected and nothing handles it.
Threw == {"contractNotFound", "mergeThrew"}

\* Whether the process ends with a failure status: with 1 after die and after
\* an unhandled rejection, with 0 after process.exit(0).
ExitsWithFailure(out) == out \in Died \cup Threw

\* A command that ends without entering a write loop: what ensureInitFiles
\* left, and how the command ended.
Ends(cmd, out) ==
  /\ nSteps < MaxSteps
  /\ cfg' = EnsureCfg(cfg)
  /\ st' = EnsureSt(st)
  /\ pc' = "idle"
  /\ run' = [NoRun EXCEPT !.cmd = cmd]
  /\ results' = <<>>
  /\ outcome' = out
  /\ pre' = Snapshot
  /\ log' = EnsureLog(cfg, st)
  /\ nSteps' = nSteps + 1
  /\ UNCHANGED <<base, files, call>>

----------------------------------------------------------------------------
(* init, list, status *)

InitCmd ==
  /\ pc = "idle"
  /\ Ends("init", "ok")

\* list() does not call ensureInitFiles.
ListCmd ==
  /\ pc = "idle"
  /\ nSteps < MaxSteps
  /\ pc' = "idle"
  /\ run' = [NoRun EXCEPT !.cmd = "list"]
  /\ results' = <<>>
  /\ outcome' = "ok"
  /\ pre' = Snapshot
  /\ log' = <<>>
  /\ nSteps' = nSteps + 1
  /\ UNCHANGED <<cfg, st, base, files, call>>

StatusCmd ==
  /\ pc = "idle"
  /\ Ends("status", "ok")

----------------------------------------------------------------------------
(* diff button [--from v] [--to v] *)

\* How diffButton ends, given the resolved versions ("none": no from version).
DiffOutcome(from, to) ==
  IF from = "none" THEN "notInstalledNoFrom"
  ELSE IF to = "none" THEN "alreadyLatest"
  ELSE IF from = to THEN "sameVersion"
  ELSE IF from \notin VersionSet \/ to \notin VersionSet THEN "unknownVersion"
  ELSE "ok"

\* The versions the "to" of a diff or upgrade may resolve to: the flag, else the
\* answer to the prompt (any version but `from`; "none" if there is no other),
\* else `fallback`.
ToChoices(toArg, interactive, from, fallback) ==
  IF toArg # "unset" THEN {toArg}
  ELSE IF interactive
       THEN (IF VersionSet \ {from} = {} THEN {"none"} ELSE VersionSet \ {from})
       ELSE {fallback}

DiffCmd(fromArg, toArg, interactive) ==
  /\ pc = "idle"
  /\ LET inst == Installed(EnsureSt(st))
         from == IF fromArg # "unset" THEN fromArg ELSE inst.version
     IN  \E to \in (IF from = "none" THEN {"none"}
                    ELSE ToChoices(toArg, interactive, from, LatestVersion)) :
           Ends("diff", DiffOutcome(from, to))

----------------------------------------------------------------------------
(* upgrade button --to v [--dry-run] *)

\* The semantic pass merge3 is asked for.
SemanticFor(style, name) ==
  IF style = "tailwind" /\ name = "Button.tsx" THEN "tailwind" ELSE "none"

\* A faulty test that never finds the target to be the installed version.
SameVersionNever(to, from) == FALSE

\* if (to === from)
SameVersion(to, from) == to = from

\* upgradeButton up to its merge loop, for target `to` ("unset": no --to and
\* not interactive).
UpgradeEnter(cmd, to, dry) ==
  LET inst == Installed(EnsureSt(st))
  IN  IF inst = NoInst THEN Ends(cmd, "notInstalled")
      ELSE IF to = "unset" THEN Ends(cmd, "missingTo")
      ELSE IF to = "none" THEN Ends(cmd, "alreadyLatest")
      ELSE IF SameVersion(to, inst.version) THEN Ends(cmd, "nothingToDo")
      ELSE IF ~ContractExists(inst.version) \/ ~ContractExists(to)
           THEN Ends(cmd, "contractNotFound")
      ELSE IF DryRun(dry) THEN Ends(cmd, "dryRun")
      ELSE /\ nSteps < MaxSteps
           /\ cfg' = EnsureCfg(cfg)
           /\ st' = EnsureSt(st)
           /\ pc' = "upgrade_merge"
           /\ run' = [cmd |-> cmd, from |-> inst.version, to |-> to,
                      style |-> inst.style, outDir |-> inst.outDir, i |-> 1,
                      anyConflicts |-> FALSE, err |-> "none"]
           /\ results' = <<>>
           /\ outcome' = "running"
           /\ pre' = Snapshot
           /\ log' = EnsureLog(cfg, st)
           /\ nSteps' = nSteps + 1
           /\ UNCHANGED <<base, files, call>>

UpgradeCmd(toArg, dry, interactive) ==
  /\ pc = "idle"
  /\ \E to \in ToChoices(toArg, interactive, Installed(EnsureSt(st)).version, "unset") :
       UpgradeEnter("upgrade", to, dry)

IncomingFiles == GeneratedFor(run.to, run.style)

\* A faulty exit that reports every failure as the same generic error.
DiesGeneric(out, path) ==
  /\ pc' = "idle"
  /\ outcome' = "error"
  /\ run' = [run EXCEPT !.err = "none"]
  /\ UNCHANGED <<cfg, st, base, files, results, pre, log, nSteps, call>>

\* The command stops where it is, with an error message that names `path`.
Dies(out, path) ==
  /\ pc' = "idle"
  /\ outcome' = out
  /\ run' = [run EXCEPT !.err = path]
  /\ UNCHANGED <<cfg, st, base, files, results, pre, log, nSteps, call>>

\* A faulty flag that remembers the last artifact's conflicts only.
AnyConflictsLastOnly(prev, has) == has

\* A faulty merge loop that goes on to the snapshot loop whatever the flag.
AfterMergeIgnoresConflicts(last, any) ==
  IF ~last THEN "upgrade_merge" ELSE "upgrade_commit"

\* A faulty merge loop that saves the state right after a clean merge, without
\* the snapshot loop.
AfterMergeSkipsSnapshots(last, any) ==
  IF ~last THEN "upgrade_merge"
  ELSE IF any THEN "idle" ELSE "upgrade_save"

\* A faulty merge loop that starts the snapshot loop after the first artifact
\* that merged cleanly.
AfterMergeCommitsEarly(last, any) ==
  IF ~any THEN "upgrade_commit"
  ELSE IF last THEN "idle" ELSE "upgrade_merge"

\* if (res.hasConflicts) anyConflicts = true
AnyConflicts(prev, has) == prev \/ has

\* Where the command goes after the merge of an artifact: the next artifact,
\* or after the last one the return on anyConflicts, else the snapshot loop.
AfterMerge(last, any) ==
  IF ~last THEN "upgrade_merge"
  ELSE IF any THEN "idle" ELSE "upgrade_commit"

\* One turn of the merge loop: the checks, merge3 and the write of artifact
\* run.i; after the last artifact, the test of anyConflicts.
UpgradeMerge(gitRuns) ==
  /\ pc = "upgrade_merge"
  /\ LET f        == IncomingFiles[run.i]
         localKey == <<run.outDir, f.name>>
         baseKey  == <<run.from, f.name>>
         res      == Merge3(base[baseKey], files[localKey], f.content,
                            SemanticFor(run.style, f.name), gitRuns)
         any      == AnyConflicts(run.anyConflicts, res.hasConflicts)
         last     == run.i = Len(IncomingFiles)
     IN  IF files[localKey] = Absent THEN Dies("missingLocal", localKey)
         ELSE IF base[baseKey] = Absent THEN Dies("missingBase", baseKey)
         ELSE IF res.threw
              THEN /\ pc' = "idle"
                   /\ outcome' = "mergeThrew"
                   /\ results' = Append(results, res)
                   /\ UNCHANGED <<cfg, st, base, files, run, pre, log, nSteps, call>>
         ELSE /\ files' = [files EXCEPT ![localKey] = res.mergedText]
              /\ log' = Append(log, W("file", "", f.name))
              /\ results' = Append(results, res)
              /\ run' = [run EXCEPT !.i = IF AfterMerge(last, any) = "upgrade_merge"
                                          THEN run.i + 1 ELSE 1,
                                    !.anyConflicts = any]
              /\ pc' = AfterMerge(last, any)
              /\ outcome' = IF AfterMerge(last, any) = "idle" THEN "incomplete"
                            ELSE outcome
              /\ UNCHANGED <<cfg, st, base, pre, nSteps, call>>

\* A faulty snapshot loop that stores the merged file instead of the incoming
\* text.
UpgradeSnapshotOfMerged ==
  /\ pc = "upgrade_commit"
  /\ LET f == IncomingFiles[run.i]
     IN  /\ base' = [base EXCEPT ![<<run.to, f.name>>] = files[<<run.outDir, f.name>>]]
         /\ log' = Append(log, W("snapshot", run.to, f.name))
         /\ run' = [run EXCEPT !.i = run.i + 1]
         /\ pc' = IF run.i = Len(IncomingFiles) THEN "upgrade_save" ELSE "upgrade_commit"
         /\ UNCHANGED <<cfg, st, files, results, outcome, pre, nSteps, call>>

\* One turn of the snapshot loop.
UpgradeSnapshot ==
  /\ pc = "upgrade_commit"
  /\ LET f == IncomingFiles[run.i]
     IN  /\ base' = [base EXCEPT ![<<run.to, f.name>>] = f.content]
         /\ log' = Append(log, W("snapshot", run.to, f.name))
         /\ run' = [run EXCEPT !.i = run.i + 1]
         /\ pc' = IF run.i = Len(IncomingFiles) THEN "upgrade_save" ELSE "upgrade_commit"
         /\ UNCHANGED <<cfg, st, files, results, outcome, pre, nSteps, call>>

\* inst.version = to; saveState(state).
UpgradeSave ==
  /\ pc = "upgrade_save"
  /\ st' = [exists |-> TRUE, button |-> [st.button EXCEPT !.version = run.to]]
  /\ log' = Append(log, W("state", "", ""))
  /\ pc' = "idle"
  /\ outcome' = "complete"
  /\ UNCHANGED <<cfg, base, files, run, results, pre, nSteps, call>>

----------------------------------------------------------------------------
(* add button [--style s] [--version v] [--dry-run] [--force] *)

\* flag > interactive prompt > config default
StyleChoices(styleArg, interactive, conf) ==
  IF styleArg # "unset" THEN {styleArg}
  ELSE IF interactive THEN Styles ELSE {conf.style}

\* flag > interactive prompt > latest
VersionChoices(versionArg, interactive) ==
  IF versionArg # "unset" THEN {versionArg}
  ELSE IF interactive THEN VersionSet ELSE {LatestVersion}

\* addButton from the resolution of style and version on.
Install(style, version, dry) ==
  LET conf == LoadConfig(EnsureCfg(cfg))
      ir   == ContractToButtonIR(LoadButtonContract(version))
      gen  == GenerateButton(ir, style)
  IN  IF ~ContractExists(version) THEN Ends("add", "contractNotFound")
      ELSE IF DryRun(dry) THEN Ends("add", "dryRun")
      ELSE /\ nSteps < MaxSteps
           /\ cfg' = EnsureCfg(cfg)
           /\ files' = WriteArtifacts(files, gen, conf.outDir)
           /\ base' = WriteSnapshots(base, gen, ir.version, Len(gen))
           /\ st' = [exists |-> TRUE,
                     button |-> [version |-> ir.version, style |-> style,
                                 outDir |-> conf.outDir]]
           /\ pc' = "idle"
           /\ run' = [NoRun EXCEPT !.cmd = "add", !.to = ir.version, !.style = style,
                                   !.outDir = conf.outDir]
           /\ results' = <<>>
           /\ outcome' = "installed"
           /\ pre' = Snapshot
           /\ log' = EnsureLog(cfg, st) \o InstallLog(gen, ir.version)
                     \o <<W("state", "", "")>>
           /\ nSteps' = nSteps + 1
           /\ UNCHANGED call

\* A faulty test that never stops at an installed component.
NeverAsks(inst, force, dry) == FALSE

\* if (installed && !force && !dryRun)
AsksBeforeOverwrite(inst, force, dry) == inst # NoInst /\ ~force /\ ~dry

AddCmd(styleArg, versionArg, dry, force, interactive) ==
  /\ pc = "idle"
  /\ LET inst == Installed(EnsureSt(st))
         conf == LoadConfig(EnsureCfg(cfg))
     IN  IF AsksBeforeOverwrite(inst, force, dry) /\ ~interactive
         THEN Ends("add", "alreadyInstalled")
         ELSE \E choice \in (IF AsksBeforeOverwrite(inst, force, dry)
                             THEN {"cancel", "upgrade", "reinstall"}
                             ELSE {"reinstall"}) :
                IF choice = "cancel" THEN Ends("add", "cancelled")
                ELSE IF choice = "upgrade"
                     THEN UpgradeEnter("upgrade", LatestVersion, FALSE)
                ELSE \E style \in StyleChoices(styleArg, interactive, conf),
                        version \in VersionChoices(versionArg, interactive) :
                       Install(style, version, dry)

----------------------------------------------------------------------------
(* The user, between commands *)

\* The user's replacement for a line: a customised class list for the recipe's
\* const line, any other text otherwise.
UserLine(line) ==
  IF line.k = "const"
  THEN Const(line.ind, line.name, line.q, <<"inline-flex", "rounded-lg">>, "canon")
  ELSE P("user")

\* What a user step leaves besides the file it changes: no command has run
\* since.
Edited ==
  /\ nSteps' = nSteps + 1
  /\ run' = [NoRun EXCEPT !.cmd = "user"]
  /\ results' = <<>>
  /\ outcome' = "edited"
  /\ pre' = Snapshot
  /\ log' = <<>>
  /\ UNCHANGED <<cfg, st, base, pc, call>>

\* The sets of line numbers one user edit rewrites: the line of a region of
\* Button.tsx (prop types, recipe, component body), a line next to one, and
\* two and three regions at once.
EditSets == {{1}, {2}, {6}, {11}, {1, 6}, {1, 11}, {1, 6, 11}}

\* The user rewrites the lines S of an artifact file.
UserEdit(key, S) ==
  /\ pc = "idle"
  /\ nSteps < MaxSteps
  /\ files[key] # Absent
  /\ S \subseteq 1..Len(files[key])
  /\ files' = [files EXCEPT ![key] =
                 [n \in 1..Len(files[key]) |->
                    IF n \in S THEN UserLine(files[key][n])
                    ELSE files[key][n]]]
  /\ files' # files
  /\ Edited

\* The user deletes an artifact file.
UserDelete(key) ==
  /\ pc = "idle"
  /\ nSteps < MaxSteps
  /\ files[key] # Absent
  /\ files' = [files EXCEPT ![key] = Absent]
  /\ Edited

\* The user deletes a file of the base-snapshot store.
UserDeleteSnapshot(key) ==
  /\ pc = "idle"
  /\ nSteps < MaxSteps
  /\ base[key] # Absent
  /\ base' = [base EXCEPT ![key] = Absent]
  /\ nSteps' = nSteps + 1
  /\ run' = [NoRun EXCEPT !.cmd = "user"]
  /\ results' = <<>>
  /\ outcome' = "edited"
  /\ pre' = Snapshot
  /\ log' = <<>>
  /\ UNCHANGED <<cfg, st, files, pc, call>>

\* What the user makes of a conflict block: the local side, the incoming side,
\* or a text of their own.
Resolutions == {"local", "incoming", "other"}

\* The text from line n on with every conflict block replaced by the user's
\* choice and no marker line left; `side` is where line n is: outside a block
\* ("kept"), in its local side or in its incoming side.
RECURSIVE ManualFrom(_, _, _, _)
ManualFrom(text, n, side, choice) ==
  IF n > Len(text) THEN <<>>
  ELSE IF text[n].k = "open" THEN ManualFrom(text, n + 1, "local", choice)
  ELSE IF text[n].k = "sep" /\ side = "local"
       THEN ManualFrom(text, n + 1, "incoming", choice)
  ELSE IF text[n].k = "close" /\ side = "incoming"
       THEN (IF choice = "other" THEN <<P("user")>> ELSE <<>>)
            \o ManualFrom(text, n + 1, "kept", choice)
  ELSE (IF side \in {"kept", choice} THEN <<text[n]>> ELSE <<>>)
       \o ManualFrom(text, n + 1, side, choice)

ResolveManually(text, choice) ==
  IF text = Absent THEN text ELSE ManualFrom(text, 1, "kept", choice)

\* After an incomplete upgrade of files that held no conflict block, the user
\* edits every conflicted artifact file so that no marker remains.
UserResolve(choice) ==
  /\ pc = "idle"
  /\ nSteps < MaxSteps
  /\ run.cmd = "upgrade" /\ outcome = "incomplete"
  /\ \A key \in DOMAIN pre.files : ~IncludesOpenMarker(pre.files[key])
  /\ files' = [key \in DOMAIN files |-> ResolveManually(files[key], choice)]
  /\ files' # files
  /\ nSteps' = nSteps + 1
  /\ run' = [NoRun EXCEPT !.cmd = "user", !.to = run.to]
  /\ results' = <<>>
  /\ outcome' = "resolved"
  /\ pre' = Snapshot
  /\ log' = <<>>
  /\ UNCHANGED <<cfg, st, base, pc, call>>

\* The process is killed while a command runs.
Abort ==
  /\ pc # "idle"
  /\ pc' = "idle"
  /\ outcome' = "aborted"
  /\ UNCHANGED <<cfg, st, base, files, run, results, pre, log, nSteps, call>>

----------------------------------------------------------------------------
(* The program *)

A(style, version, dry, force, interactive) ==
  [style |-> style, version |-> version, dry |-> dry, force |-> force,
   interactive |-> interactive]

\* The command lines of add: --force with each style and version flag, no flag
\* at all, --dry-run, and an interactive run (whose prompts choose the rest).
AddInputs ==
  {A(s, v, FALSE, TRUE, FALSE) : s \in {"unset", "css-modules"},
                                 v \in {"unset", "1.0.0", "9.9.9"}}
  \cup {A("unset", "unset", FALSE, FALSE, FALSE),
        A("unset", "unset", TRUE, FALSE, FALSE),
        A("css-modules", "1.0.0", TRUE, TRUE, FALSE),
        A("unset", "9.9.9", TRUE, FALSE, FALSE),
        A("unset", "unset", FALSE, FALSE, TRUE)}

U(to, dry, interactive) == [to |-> to, dry |-> dry, interactive |-> interactive]

\* The command lines of upgrade: --to with each version, with and without
\* --dry-run, no --to, and an interactive run.
UpgradeInputs ==
  {U(v, d, FALSE) : v \in ArgVersions \cup {"unset"}, d \in BOOLEAN}
  \cup {U("unset", FALSE, TRUE)}

D(from, to, interactive) == [from |-> from, to |-> to, interactive |-> interactive]

\* The command lines of diff.
DiffInputs ==
  {D("unset", "unset", FALSE), D("unset", "unset", TRUE), D("1.0.0", "1.1.0", FALSE),
   D("1.1.0", "1.0.0", FALSE), D("1.0.0", "1.0.0", FALSE), D("9.9.9", "unset", FALSE),
   D("1.0.0", "9.9.9", FALSE)}

Command ==
  \/ InitCmd
  \/ ListCmd
  \/ StatusCmd
  \/ \E d \in DiffInputs : DiffCmd(d.from, d.to, d.interactive)
  \/ \E u \in UpgradeInputs : UpgradeCmd(u.to, u.dry, u.interactive)
  \/ \E gitRuns \in BOOLEAN : UpgradeMerge(gitRuns)
  \/ UpgradeSnapshot
  \/ UpgradeSave
  \/ \E a \in AddInputs : AddCmd(a.style, a.version, a.dry, a.force, a.interactive)

User ==
  \/ \E key \in OutDirs \X ArtifactNames, S \in EditSets : UserEdit(key, S)
  \/ \E key \in OutDirs \X ArtifactNames : UserDelete(key)

Next == Command \/ User

\* The commands run to their end.
Spec == Init /\ [][Next]_vars

\* The process may be killed at any step of a command.
SpecAbort == Init /\ [][Next \/ Abort]_vars

StoreLoss == \E key \in VersionSet \X ArtifactNames : UserDeleteSnapshot(key)

\* The user may also delete files of the base-snapshot store between commands.
SpecStoreLoss == Init /\ [][Next \/ StoreLoss]_vars

----------------------------------------------------------------------------
(* An upgrade, the user's resolution of its conflicts, and the retry *)

\* The directory after `add button --version 1.0.0` in a style and the user's
\* edit of the lines S of Button.tsx; steps are counted from here.
InitRetry ==
  /\ call = NoCall
  /\ cfg = DefaultConfig
  /\ pc = "idle"
  /\ run = [NoRun EXCEPT !.cmd = "user"]
  /\ results = <<>>
  /\ outcome = "edited"
  /\ log = <<>>
  /\ nSteps = 0
  /\ \E style \in Styles, S \in EditSets :
       LET gen       == GeneratedFor(Versions[1], style)
           installed == WriteArtifacts([key \in OutDirs \X ArtifactNames |-> Absent],
                                       gen, DefaultConfig.outDir)
           key       == <<DefaultConfig.outDir, "Button.tsx">>
       IN  /\ S \subseteq 1..Len(installed[key])
           /\ st = [exists |-> TRUE,
                    button |-> [version |-> Versions[1], style |-> style,
                                outDir |-> DefaultConfig.outDir]]
           /\ base = WriteSnapshots([k \in VersionSet \X ArtifactNames |-> Absent],
                                     gen, Versions[1], Len(gen))
           /\ files = [installed EXCEPT ![key] =
                         [n \in 1..Len(installed[key]) |->
                            IF n \in S THEN UserLine(installed[key][n])
                            ELSE installed[key][n]]]
           /\ pre = [cfg |-> cfg, st |-> st, base |-> base, files |-> installed,
                     resolvedFor |-> "none"]

NextRetry ==
  \/ UpgradeCmd(LatestVersion, FALSE, FALSE)
  \/ \E gitRuns \in BOOLEAN : UpgradeMerge(gitRuns)
  \/ UpgradeSnapshot
  \/ UpgradeSave
  \/ \E choice \in Resolutions : UserResolve(choice)

SpecRetry == InitRetry /\ [][NextRetry]_vars

----------------------------------------------------------------------------
(* merge3 on its own: the three texts are a base text and two edits of it *)

\* Lines of the base text of a merge.
MaxBase == 3

\* What a side does to one line of base: keep it, replace it by a line of its
\* own, replace it by the line the other side also writes, or delete it.
EditKinds == {"keep", "own", "same", "del"}

\* The lines both sides keep between two lines of base that a side may edit:
\* none, or one more than git joins two conflicts over.
Pads == {0, MaxJoinGap + 1}

\* Line n of the base text; the first line holds the characters "<<<<<<<"
\* when `marked`.
BaseLine(n, marked) ==
  IF n = 1 /\ marked THEN Open("quoted") ELSE P(ToString(n))

\* The pad lines after line n of a base text of len lines, all different.
Fill(n, len, pad) ==
  IF n = len THEN <<>>
  ELSE [k \in 1..pad |-> P(ToString(n) \o "+" \o ToString(k))]

\* The line a side writes of its own in place of base line n: a class recipe in
\* place of line 1, any other text elsewhere.
OwnLine(side, n) ==
  IF n = 1
  THEN Const(2, "base", "dq",
             IF side = "local" THEN <<"inline-flex", "rounded-lg">>
             ELSE <<"inline-flex", "transition-colors">>, "canon")
  ELSE P(side)

\* What a side makes of base line n with an edit of kind e.
EditLine(e, marked, side, n) ==
  IF e = "keep" THEN <<BaseLine(n, marked)>>
  ELSE IF e = "own" THEN <<OwnLine(side, n)>>
  ELSE IF e = "same" THEN <<P("both")>>
  ELSE <<>>

\* The text a side makes of base with the edits e (one kind per base line),
\* from line n on; the all-keep edits give the base text.
RECURSIVE EditFrom(_, _, _, _, _, _)
EditFrom(len, marked, pad, e, side, n) ==
  IF n > len THEN <<>>
  ELSE EditLine(e[n], marked, side, n) \o Fill(n, len, pad)
       \o EditFrom(len, marked, pad, e, side, n + 1)

BaseText(len, marked, pad) ==
  EditFrom(len, marked, pad, [n \in 1..len |-> "keep"], "base", 1)

MergeInput(len, marked, pad, eL, eI, semantic) ==
  [len |-> len, marked |-> marked, pad |-> pad, eL |-> eL, eI |-> eI,
   semantic |-> semantic,
   base |-> BaseText(len, marked, pad),
   local |-> EditFrom(len, marked, pad, eL, "local", 1),
   incoming |-> EditFrom(len, marked, pad, eI, "incoming", 1)]

InitMerge3 ==
  /\ FreshDirectory
  /\ \E len \in 0..MaxBase :
       \E marked \in (IF len = 0 THEN {FALSE} ELSE BOOLEAN),
          pad \in (IF len <= 1 THEN {0} ELSE Pads),
          eL \in [1..len -> EditKinds], eI \in [1..len -> EditKinds],
          semantic \in {"none", "tailwind"} :
         call = [fn |-> "merge3",
                 args |-> MergeInput(len, marked, pad, eL, eI, semantic),
                 done |-> FALSE, ret |-> <<>>]

\* merge3({basePath, localPath, incomingContent, semantic}), git being there.
CallMerge3 ==
  /\ call.fn = "merge3"
  /\ ~call.done
  /\ call' = [call EXCEPT
                !.done = TRUE,
                !.ret = Merge3(call.args.base, call.args.local, call.args.incoming,
                               call.args.semantic, TRUE)]
  /\ UNCHANGED <<cfg, st, base, files, pc, run, results, outcome, pre, log, nSteps>>

SpecMerge3 == InitMerge3 /\ [][CallMerge3]_vars

----------------------------------------------------------------------------
(* The resolver on its own: the text is a sequence of pieces, each a line  *)
(* or a conflict block                                                     *)

\* Pieces of the text of a resolver call.
MaxPieces == 2

\* Two class recipes of the same name, one of another name, and one whose
\* value holds none of the characters - : [ ]
ConstLocal == Const(2, "base", "dq", <<"inline-flex", "rounded-lg">>, "canon")

ConstIncoming == Const(2, "base", "sq", <<"inline-flex", "transition-colors">>, "loose")

ConstOther == Const(0, "other", "dq", <<"inline-flex", "rounded-md">>, "canon")

ConstPlain == Const(2, "base", "dq", <<"flex">>, "canon")

\* The local sides and the incoming sides of the conflict blocks: empty, one
\* recipe line, a line that is no recipe, a recipe without class characters,
\* two lines.
LocalSides == {<<>>, <<ConstLocal>>, <<P("mine")>>, <<ConstPlain>>, <<ConstLocal, P("mine")>>}

IncomingSides == {<<>>, <<ConstIncoming>>, <<ConstOther>>, <<ConstPlain>>}

\* A conflict block as git writes it.
Block(a, b) == <<Open("LOCAL")>> \o a \o <<Sep>> \o b \o <<Close("INCOMING")>>

\* A piece: one line (code, an empty line, a recipe, a line of seven '=', a
\* line that begins with seven '>', a line that holds seven '<'), or a block.
Pieces ==
  {[block |-> FALSE, a |-> <<>>, b |-> <<>>, lines |-> <<l>>] :
     l \in {P("code"), Blank, ConstLocal, Sep, Close("INCOMING"), Open("quoted")}}
  \cup {[block |-> TRUE, a |-> a, b |-> b, lines |-> Block(a, b)] :
          a \in LocalSides, b \in IncomingSides}

\* The lines of the pieces from piece n on.
RECURSIVE Flatten(_, _)
Flatten(ps, n) ==
  IF n > Len(ps) THEN <<>> ELSE ps[n].lines \o Flatten(ps, n + 1)

\* The text of a resolver call: its pieces, and whether its last line ends
\* with a newline.
InitResolve ==
  /\ FreshDirectory
  /\ \E len \in 0..MaxPieces :
       \E ps \in [1..len -> Pieces], nl \in (IF len = 0 THEN {TRUE} ELSE BOOLEAN) :
         call = [fn |-> "resolve",
                 args |-> [pieces |-> ps, nl |-> nl, text |-> Flatten(ps, 1)],
                 done |-> FALSE, ret |-> <<>>]

\* resolveTailwindConstStringConflicts(text)
CallResolve ==
  /\ call.fn = "resolve"
  /\ ~call.done
  /\ call' = [call EXCEPT
                !.done = TRUE,
                !.ret = ResolveTailwindConstStringConflicts(call.args.text, call.args.nl)]
  /\ UNCHANGED <<cfg, st, base, files, pc, run, results, outcome, pre, log, nSteps>>

SpecResolve == InitResolve /\ [][CallResolve]_vars

----------------------------------------------------------------------------
(* The resolver applied to its own result *)

\* A class recipe whose string value holds seven '<'.
ConstMarked == Const(2, "base", "dq", <<"rounded-md", OpenMarker>>, "canon")

\* What is left of a block whose opening line is gone.
Unopened(a, b) == a \o <<Sep>> \o b \o <<Close("INCOMING")>>

\* The pieces of the texts resolved twice: one line, a block, or a block
\* without its opening line.
PiecesAgain ==
  {[block |-> FALSE, a |-> <<>>, b |-> <<>>, lines |-> <<l>>] :
     l \in {P("code"), ConstLocal, Open("quoted")}}
  \cup {[block |-> TRUE, a |-> a, b |-> b, lines |-> Block(a, b)] :
          a \in {<<>>, <<ConstLocal>>, <<ConstMarked>>, <<P("mine")>>},
          b \in {<<>>, <<ConstIncoming>>, <<ConstOther>>}}
  \cup {[block |-> FALSE, a |-> a, b |-> b, lines |-> Unopened(a, b)] :
          a \in {<<ConstLocal>>}, b \in {<<ConstIncoming>>, <<ConstOther>>}}

InitResolveAgain ==
  /\ FreshDirectory
  /\ \E len \in 0..MaxPieces :
       \E ps \in [1..len -> PiecesAgain], nl \in (IF len = 0 THEN {TRUE} ELSE BOOLEAN) :
         call = [fn |-> "resolveAgain",
                 args |-> [pieces |-> ps, nl |-> nl, text |-> Flatten(ps, 1)],
                 done |-> FALSE, ret |-> <<>>]

\* resolveTailwindConstStringConflicts(text)
ResolveFirst ==
  /\ call.fn = "resolveAgain"
  /\ ~call.done
  /\ call.ret = <<>>
  /\ call' = [call EXCEPT
                !.ret = <<ResolveTailwindConstStringConflicts(call.args.text, call.args.nl)>>]
  /\ UNCHANGED <<cfg, st, base, files, pc, run, results, outcome, pre, log, nSteps>>

\* resolveTailwindConstStringConflicts(first.text): the text returned ends
\* with a newline exactly when the text given does.
ResolveAgain ==
  /\ call.fn = "resolveAgain"
  /\ ~call.done
  /\ call.ret # <<>>
  /\ call' = [call EXCEPT
                !.done = TRUE,
                !.ret = Append(call.ret,
                               ResolveTailwindConstStringConflicts(call.ret[1].text,
                                                                   call.args.nl))]
  /\ UNCHANGED <<cfg, st, base, files, pc, run, results, outcome, pre, log, nSteps>>

SpecResolveAgain == InitResolveAgain /\ [][ResolveFirst \/ ResolveAgain]_vars

----------------------------------------------------------------------------
(* unionTokens on its own *)

\* Tokens of one side's value.
MaxTokens == 2

\* The tokens a value is made of.
Tokens == {"px-4", "py-2", "flex"}

\* The token sequences of a value: a.split(/\s+/).filter(Boolean)
TokenSeqs == UNION {[1..n -> Tokens] : n \in 0..MaxTokens}

InitUnion ==
  /\ FreshDirectory
  /\ \E a \in TokenSeqs, b \in TokenSeqs :
       call = [fn |-> "unionTokens", args |-> [a |-> a, b |-> b],
               done |-> FALSE, ret |-> <<>>]

\* unionTokens(a, b)
CallUnionTokens ==
  /\ call.fn = "unionTokens"
  /\ ~call.done
  /\ call' = [call EXCEPT !.done = TRUE,
                          !.ret = UnionTokens(call.args.a, call.args.b)]
  /\ UNCHANGED <<cfg, st, base, files, pc, run, results, outcome, pre, log, nSteps>>

SpecUnion == InitUnion /\ [][CallUnionTokens]_vars

----------------------------------------------------------------------------
(* diffLines on its own *)

\* Lines of a text of a diffLines call.
MaxLines == 3

\* The greatest context size of a diffLines call.
MaxContext == 2

\* The lines the texts are made of.
DiffAlphabet == {P("a"), P("b")}

\* The texts: up to MaxLines lines, with or without a final newline (a text
\* of no line is "" or "\n").
DiffTexts ==
  {[lines |-> l, nl |-> nl] :
     l \in UNION {[1..n -> DiffAlphabet] : n \in 0..MaxLines}, nl \in BOOLEAN}

InitDiff ==
  /\ FreshDirectory
  /\ \E oldText \in DiffTexts, newText \in DiffTexts, contextLines \in 0..MaxContext :
       call = [fn |-> "diffLines",
               args |-> [oldText |-> oldText, newText |-> newText,
                         contextLines |-> contextLines],
               done |-> FALSE, ret |-> <<>>]

\* diffLines(oldText, newText, contextLines)
CallDiffLines ==
  /\ call.fn = "diffLines"
  /\ ~call.done
  /\ call' = [call EXCEPT
                !.done = TRUE,
                !.ret = DiffLines(call.args.oldText, call.args.newText,
                                  call.args.contextLines)]
  /\ UNCHANGED <<cfg, st, base, files, pc, run, results, outcome, pre, log, nSteps>>

SpecDiff == InitDiff /\ [][CallDiffLines]_vars

----------------------------------------------------------------------------
(* contractToButtonIR on its own *)

\* A prop of a contract: not there, there without a default, or there with one
\* of the defaults.
PropChoices(defaults) ==
  {None, Some([default |-> None])} \cup {Some([default |-> Some(d)]) : d \in defaults}

\* An optional field that holds one of the values.
FieldChoices(values) == {None} \cup {Some(v) : v \in values}

\* The props of a contract: none, or an object of optional props.
PropsChoices ==
  {None} \cup
  {Some([variant |-> v, size |-> s, disabled |-> d, loading |-> l]) :
     v \in PropChoices({"solid", "ghost", ""}), s \in PropChoices({"md", "lg"}),
     d \in PropChoices(BOOLEAN), l \in PropChoices(BOOLEAN)}

\* The a11y expectations of a contract: none, or an object of optional fields.
A11yChoices ==
  {None} \cup
  {Some([defaultType |-> t, busyAttribute |-> b, loadingDisables |-> l]) :
     t \in FieldChoices({"button", "submit"}),
     b \in FieldChoices({"aria-busy", "data-busy"}),
     l \in FieldChoices(BOOLEAN)}

InitIR ==
  /\ FreshDirectory
  /\ \E version \in VersionSet, props \in PropsChoices, a11y \in A11yChoices :
       call = [fn |-> "contractToButtonIR",
               args |-> [contract |-> [name |-> "Button", version |-> version,
                                       element |-> "button", props |-> props,
                                       a11y |-> a11y]],
               done |-> FALSE, ret |-> <<>>]

\* contractToButtonIR(contract)
CallContractToButtonIR ==
  /\ call.fn = "contractToButtonIR"
  /\ ~call.done
  /\ call' = [call EXCEPT !.done = TRUE,
                          !.ret = ContractToButtonIR(call.args.contract)]
  /\ UNCHANGED <<cfg, st, base, files, pc, run, results, outcome, pre, log, nSteps>>

SpecIR == InitIR /\ [][CallContractToButtonIR]_vars

----------------------------------------------------------------------------
(* Properties of the upgrade commit rule *)

\* An upgrade that reached its merge loop runs or has run last.
InUpgrade == run.cmd = "upgrade" /\ run.to \in VersionSet

\* The names of the artifacts that upgrade merges.
UpgradeArtifacts == {IncomingFiles[n].name : n \in 1..Len(IncomingFiles)}

\* Some artifact merged so far still has conflicts.
AnyConflict == \E n \in 1..Len(results) : results[n].hasConflicts

\* Every artifact has been merged, none with conflicts left.
AllMergedClean ==
  /\ Len(results) = Len(IncomingFiles)
  /\ \A n \in 1..Len(results) : ~results[n].threw /\ ~results[n].hasConflicts

\* C1, as the specification states it: in an upgrade where an artifact still
\* has conflicts, the installed record is the one before the attempt and no
\* base snapshot of the target version exists for any artifact.
C1_NoTargetSnapshotExists ==
  (InUpgrade /\ AnyConflict) =>
    /\ Installed(st) = Installed(pre.st)
    /\ \A name \in UpgradeArtifacts : base[<<run.to, name>>] = Absent

\* C1, amended: in an upgrade where an artifact still has conflicts, the
\* installed record is the one before the attempt and every base snapshot of
\* the target version is as it was before the attempt (absent if it was
\* absent, the earlier install's text if an earlier install or upgrade left
\* one).
C1_TargetSnapshotsAsBefore ==
  (InUpgrade /\ AnyConflict) =>
    /\ Installed(st) = Installed(pre.st)
    /\ \A name \in UpgradeArtifacts :
         base[<<run.to, name>>] = pre.base[<<run.to, name>>]

\* An upgrade ended with conflicts while a snapshot of the target version,
\* left by an earlier install, exists.
C1_Witness ==
  /\ InUpgrade /\ AnyConflict /\ outcome = "incomplete"
  /\ \E name \in UpgradeArtifacts : base[<<run.to, name>>] # Absent

\* C2: an upgrade that ends incomplete has written nothing to the base-snapshot
\* store: the store is the one before the attempt, for every version and every
\* artifact.
C2_IncompleteWritesNoSnapshot ==
  (InUpgrade /\ pc = "idle" /\ AnyConflict) =>
    /\ base = pre.base
    /\ \A n \in 1..Len(log) : log[n].kind # "snapshot"

\* An incomplete upgrade in which one artifact merged cleanly and another did
\* not.
C2_Witness ==
  /\ InUpgrade /\ pc = "idle" /\ outcome = "incomplete"
  /\ \E n \in 1..Len(results) : ~results[n].hasConflicts
  /\ files # pre.files

\* C3: when every artifact merges without conflicts left, the upgrade is
\* complete: every artifact file holds its merged text, a snapshot of the target
\* version holds the incoming text of every artifact, and the installed record
\* is the earlier one with the version set to the target.
C3_CleanUpgradeCompletes ==
  (InUpgrade /\ pc = "idle" /\ AllMergedClean) =>
    /\ outcome = "complete"
    /\ \A n \in 1..Len(IncomingFiles) :
         /\ files[<<run.outDir, IncomingFiles[n].name>>] = results[n].mergedText
         /\ base[<<run.to, IncomingFiles[n].name>>] = IncomingFiles[n].content
    /\ Installed(st) = [Installed(pre.st) EXCEPT !.version = run.to]

\* A complete upgrade that merged a user's edit: the merged text is not the
\* incoming text.
C3_Witness ==
  /\ InUpgrade /\ pc = "idle" /\ AllMergedClean /\ outcome = "complete"
  /\ \E n \in 1..Len(IncomingFiles) : results[n].mergedText # IncomingFiles[n].content

\* C4: in an upgrade the write of the installed record is the last persisted
\* write: every artifact file write and every target snapshot write of the
\* upgrade is before it, and the command has ended.
C4_StateWriteIsLast ==
  InUpgrade =>
    \A n \in 1..Len(log) :
      log[n].kind = "state" =>
        /\ n = Len(log)
        /\ pc = "idle"
        /\ \A name \in UpgradeArtifacts :
             /\ \E m \in 1..(n - 1) : log[m] = W("file", "", name)
             /\ \E m \in 1..(n - 1) : log[m] = W("snapshot", run.to, name)

\* A complete upgrade of two artifacts: two file writes, two snapshot writes,
\* then the state write.
C4_Witness ==
  /\ InUpgrade /\ outcome = "complete"
  /\ Len(log) = 5
  /\ log[5].kind = "state"

\* C5: in an upgrade, when the first write to the base-snapshot store or to the
\* installed record is made, every artifact has its merge outcome.
C5_MergesBeforeCommit ==
  InUpgrade =>
    ((\E n \in 1..Len(log) : log[n].kind \in {"snapshot", "state"}) =>
       /\ Len(results) = Len(IncomingFiles)
       /\ \A n \in 1..Len(results) : ~results[n].threw)

\* The first snapshot of an upgrade of two artifacts has been written.
C5_Witness ==
  /\ InUpgrade /\ pc = "upgrade_commit"
  /\ Len(IncomingFiles) = 2
  /\ \E n \in 1..Len(log) : log[n].kind = "snapshot"

----------------------------------------------------------------------------
(* Properties of the persisted state *)

\* The keys of the base snapshots that exist in a store.
SnapshotSet(bs) == {key \in DOMAIN bs : bs[key] # Absent}

\* C6: when the process is killed at any step of an upgrade, the installed
\* version and the set of base snapshots are the ones before the upgrade
\* started.
C6_AbortKeepsVersionAndSnapshots ==
  (InUpgrade /\ outcome = "aborted") =>
    /\ Installed(st).version = Installed(pre.st).version
    /\ SnapshotSet(base) = SnapshotSet(pre.base)

\* C7: if the installed record is (v, s), every artifact the generator emits
\* for (v, s) has a base snapshot keyed (v, name) that holds the text generated
\* for (v, s).
C7_SnapshotsOfInstalledVersion ==
  Installed(st) # NoInst =>
    LET gen == GeneratedFor(Installed(st).version, Installed(st).style)
    IN  \A n \in 1..Len(gen) :
          base[<<Installed(st).version, gen[n].name>>] = gen[n].content

\* A forced reinstall in another style, over snapshots an earlier install left.
C7_Witness ==
  /\ run.cmd = "add" /\ outcome = "installed"
  /\ Installed(pre.st) # NoInst
  /\ Installed(pre.st).style # Installed(st).style

\* C8: the installed record changes only in the step that completes an install
\* or an upgrade.
C8_RecordChangesOnlyOnCompletion ==
  [][Installed(st') # Installed(st) => outcome' \in {"installed", "complete"}]_vars

\* A complete upgrade has changed the record, and commands that leave the
\* record alone have run before it.
C8_Witness ==
  /\ InUpgrade /\ outcome = "complete"
  /\ Installed(st) # Installed(pre.st)
  /\ nSteps >= 3

\* C9: diff leaves the persisted state (the configuration file, the state
\* record file, the base-snapshot store and the artifact files) as it was.
C9_DiffLeavesPersistedState ==
  (run.cmd = "diff" /\ pc = "idle") =>
    /\ cfg = pre.cfg
    /\ st = pre.st
    /\ base = pre.base
    /\ files = pre.files

\* C10: a merge that git could run and that ends with n >= 1 conflicts does
\* not throw, and its hasConflicts flag tells whether the merged text still
\* holds a conflict.
C10_ConflictsAreNotFailures ==
  \A n \in 1..Len(results) :
    (results[n].gitRan /\ results[n].status >= 1) =>
      /\ ~results[n].threw
      /\ results[n].hasConflicts = IncludesOpenMarker(results[n].mergedText)

----------------------------------------------------------------------------
(* Properties of the failures of an upgrade *)

\* The upgrade stopped on a missing local file or a missing base snapshot.
StoppedOnMissing == InUpgrade /\ outcome \in {"missingLocal", "missingBase"}

\* The upgrade has ended, and when it started the local file or the base
\* snapshot of one of its artifacts was absent.
EndedWithMissing ==
  /\ InUpgrade /\ pc = "idle"
  /\ \E name \in UpgradeArtifacts :
       \/ pre.files[<<run.outDir, name>>] = Absent
       \/ pre.base[<<run.from, name>>] = Absent

\* C11: an upgrade with an artifact whose local file or base snapshot is absent
\* ends in a failure; the failure on a missing file tells a missing local file
\* from a missing base snapshot and names the absent path of the artifact, no
\* merge has run for that artifact, and the installed record and the
\* base-snapshot store are the ones before the upgrade.
C11_MissingFilesFailDistinctly ==
  /\ EndedWithMissing => outcome \in {"missingLocal", "missingBase", "mergeThrew"}
  /\ StoppedOnMissing =>
       LET name == IncomingFiles[run.i].name
       IN  /\ outcome = "missingLocal" =>
                run.err = <<run.outDir, name>> /\ files[<<run.outDir, name>>] = Absent
           /\ outcome = "missingBase" =>
                /\ run.err = <<run.from, name>> /\ base[<<run.from, name>>] = Absent
                /\ files[<<run.outDir, name>>] # Absent
           /\ Len(results) = run.i - 1
           /\ Installed(st) = Installed(pre.st)
           /\ base = pre.base

\* The upgrade stopped on the missing base snapshot of its second artifact,
\* after the merge of the first.
C11_Witness ==
  /\ StoppedOnMissing /\ outcome = "missingBase"
  /\ run.i = 2
  /\ Len(results) = 1

\* C12: when an upgrade stops on a fatal failure (a missing base snapshot, a
\* missing local file or a merge that threw), no artifact file has been
\* overwritten by that upgrade.
C12_FatalFailureWritesNoFile ==
  (InUpgrade /\ outcome \in {"missingLocal", "missingBase", "mergeThrew"}) =>
    files = pre.files

----------------------------------------------------------------------------
(* Properties of merge3 *)

\* merge3 has been called on its own and has returned or thrown.
Merged == call.fn = "merge3" /\ call.done

\* The positions of base a side edits.
Edited3(e) == {n \in DOMAIN e : e[n] # "keep"}

\* Base with the edits of both sides, each line taken from the side that edits
\* it, from line n on.
RECURSIVE BothEdits(_, _)
BothEdits(x, n) ==
  IF n > x.len THEN <<>>
  ELSE (IF x.eL[n] # "keep" THEN EditLine(x.eL[n], x.marked, "local", n)
        ELSE EditLine(x.eI[n], x.marked, "incoming", n))
       \o Fill(n, x.len, x.pad)
       \o BothEdits(x, n + 1)

\* A marker line of a conflict block.
IsMarker(line) == line.k \in {"open", "sep", "close"}

\* t holds a conflict block with the line l on its local side and the line i
\* on its incoming side: an opening marker, l, the separator, i and a closing
\* marker in that order, no other marker between them.
HoldsBlock(t, l, i) ==
  \E o, s, c \in 1..Len(t) :
    /\ o < s /\ s < c
    /\ t[o].k = "open" /\ t[s].k = "sep" /\ t[c].k = "close"
    /\ \A m \in ((o + 1)..(c - 1)) \ {s} : ~IsMarker(t[m])
    /\ \E m \in (o + 1)..(s - 1) : t[m] = l
    /\ \E m \in (s + 1)..(c - 1) : t[m] = i

\* C13: when local is the base text, merge3 returns the incoming text and
\* hasConflicts = false.
C13_LocalUnchangedTakesIncoming ==
  (Merged /\ call.args.local = call.args.base) =>
    /\ ~call.ret.threw
    /\ call.ret.mergedText = call.args.incoming
    /\ ~call.ret.hasConflicts

\* C14: when incoming is the base text, merge3 returns the local text and
\* hasConflicts = false.
C14_IncomingUnchangedTakesLocal ==
  (Merged /\ call.args.incoming = call.args.base) =>
    /\ ~call.ret.threw
    /\ call.ret.mergedText = call.args.local
    /\ ~call.ret.hasConflicts

\* C15: when local and incoming edit disjoint sets of base lines (next to each
\* other or not) of a base text that holds no marker, merge3 returns
\* hasConflicts = false and the base text with both edits, in base order.
C15_DisjointEditsMergeCleanly ==
  (/\ Merged
   /\ ~call.args.marked
   /\ Edited3(call.args.eL) # {} /\ Edited3(call.args.eI) # {}
   /\ Edited3(call.args.eL) \cap Edited3(call.args.eI) = {}) =>
    /\ ~call.ret.threw
    /\ ~call.ret.hasConflicts
    /\ call.ret.mergedText = BothEdits(call.args, 1)

\* C16: when local and incoming replace the same line of base, each by a line
\* of its own, merge3 without the semantic pass returns hasConflicts = true and
\* a text that holds a conflict block with local's line on its local side and
\* incoming's line on its incoming side.
C16_SameRegionGivesConflictBlock ==
  (Merged /\ ~call.args.marked /\ call.args.semantic = "none") =>
    \A n \in 1..call.args.len :
      (call.args.eL[n] = "own" /\ call.args.eI[n] = "own") =>
        /\ ~call.ret.threw
        /\ call.ret.hasConflicts
        /\ HoldsBlock(call.ret.mergedText, OwnLine("local", n), OwnLine("incoming", n))

\* C17: the hasConflicts of a merge3 that returns is false when git merged the
\* three texts without a conflict, and true when git emitted a conflict block
\* and no semantic pass was asked for.
C17_HasConflictsIffBlockEmitted ==
  (Merged /\ ~call.ret.threw) =>
    /\ call.ret.status = 0 => ~call.ret.hasConflicts
    /\ (call.ret.status >= 1 /\ call.args.semantic = "none") => call.ret.hasConflicts

----------------------------------------------------------------------------
(* Properties of the resolver *)

\* The resolver has been called on its own and has returned.
Resolved == call.fn = "resolve" /\ call.done

\* No line of the text is a marker or holds the characters "<<<<<<<".
MarkerFree(text) == \A n \in 1..Len(text) : ~IsMarker(text[n])

Qualifies(p) ==
  /\ p.block
  /\ Len(p.a) = 1 /\ Len(p.b) = 1
  /\ ParsesAsConst(p.a[1]) /\ ParsesAsConst(p.b[1])
  /\ p.a[1].name = p.b[1].name
  /\ LooksLikeTailwind(p.a[1].val) \/ LooksLikeTailwind(p.b[1].val)

\* The piece holds the characters "<<<<<<<".
HoldsOpen(p) == IncludesOpenMarker(p.lines)

\* The one line in place of a qualifying block: local's indentation, name and
\* quote, the union of the tokens.
ResolvedLine(p) ==
  Const(p.a[1].ind, p.a[1].name, p.a[1].q, UnionTokens(p.a[1].val, p.b[1].val), "canon")

\* The pieces of the call that are qualifying blocks.
Qualifying == {n \in DOMAIN call.args.pieces : Qualifies(call.args.pieces[n])}

\* C19: of a text with qualifying blocks, the resolver replaces each
\* qualifying block (five lines) by one line, the one with the unioned tokens,
\* and returns changed = true; the opening markers left are those of the other
\* pieces, and stillHasConflicts = false when there are no others.
C19_QualifyingBlockBecomesOneLine ==
  (Resolved /\ Qualifying # {}) =>
    /\ call.ret.changed
    /\ Len(call.ret.text) = Len(call.args.text) - 4 * Cardinality(Qualifying)
    /\ \A n \in Qualifying :
         \E m \in 1..Len(call.ret.text) :
           call.ret.text[m] = ResolvedLine(call.args.pieces[n])
    /\ Cardinality({m \in 1..Len(call.ret.text) : HasOpenMarker(call.ret.text[m])})
         = Cardinality({n \in DOMAIN call.args.pieces :
                          HoldsOpen(call.args.pieces[n]) /\ n \notin Qualifying})
    /\ (\A n \in DOMAIN call.args.pieces :
          HoldsOpen(call.args.pieces[n]) => n \in Qualifying)
         => ~call.ret.stillHasConflicts

----------------------------------------------------------------------------
(* Properties of unionTokens *)

\* C20: a token of both sides is once in the union of the two sides' tokens.
C20_CommonTokensOnce ==
  (call.fn = "unionTokens" /\ call.done) =>
    \A t \in Tokens :
      (/\ \E n \in 1..Len(call.args.a) : call.args.a[n] = t
       /\ \E n \in 1..Len(call.args.b) : call.args.b[n] = t) =>
        Cardinality({n \in 1..Len(call.ret) : call.ret[n] = t}) = 1

\* unionTokens has been called on its own and has returned.
United == call.fn = "unionTokens" /\ call.done

\* The tokens of a sequence.
TokensOf(q) == {q[n] : n \in 1..Len(q)}

\* The place of the first t in q.
FirstAt(q, t) == CHOOSE n \in 1..Len(q) : q[n] = t /\ \A m \in 1..(n - 1) : q[m] # t

\* C21: the union is local's tokens in their order, followed by the incoming
\* tokens that local has not, each once, in the order incoming first has them;
\* every token of either side is in it.
C21_UnionIsLocalThenNewIncoming ==
  United =>
    LET a == call.args.a
        b == call.args.b
        r == call.ret
    IN  /\ Len(r) >= Len(a)
        /\ SubSeq(r, 1, Len(a)) = a
        /\ {r[n] : n \in (Len(a) + 1)..Len(r)} = TokensOf(b) \ TokensOf(a)
        /\ \A n, m \in (Len(a) + 1)..Len(r) :
             n < m => FirstAt(b, r[n]) < FirstAt(b, r[m])
        /\ TokensOf(r) = TokensOf(a) \cup TokensOf(b)

\* The union of two sides that share a token, each with a token of its own.
C21_Witness ==
  /\ United
  /\ call.args.a = <<"px-4", "py-2">>
  /\ call.args.b = <<"py-2", "flex">>
  /\ call.ret = <<"px-4", "py-2", "flex">>

----------------------------------------------------------------------------
(* Properties of the resolver: what it leaves alone *)

\* The pieces of the call that are blocks.
Blocks == {n \in DOMAIN call.args.pieces : call.args.pieces[n].block}

\* The lines of the text before piece n.
LinesBefore(n) == Len(Flatten(SubSeq(call.args.pieces, 1, n - 1), 1))

\* C22: a block that fails a resolution condition is in the output line for
\* line, at its place (as many lines before it as in the input, four fewer for
\* each qualifying block resolved before it); when the text has blocks and none
\* qualifies, the output is the input, changed = false and
\* stillHasConflicts = true.
C22_FailingBlockIsUntouched ==
  (Resolved /\ Blocks # {}) =>
    /\ \A n \in Blocks \ Qualifying :
         \E k \in 0..Cardinality({m \in Qualifying : m < n}) :
           LET at == LinesBefore(n) - 4 * k
               ls == call.args.pieces[n].lines
           IN  /\ at + Len(ls) <= Len(call.ret.text)
               /\ SubSeq(call.ret.text, at + 1, at + Len(ls)) = ls
    /\ Qualifying = {} =>
         /\ call.ret.text = call.args.text
         /\ ~call.ret.changed
         /\ call.ret.stillHasConflicts

\* A qualifying block has been resolved, and the block after it, whose sides
\* have different names, is still there.
C22_Witness ==
  /\ Resolved
  /\ call.args.pieces =
       << [block |-> TRUE, a |-> <<ConstLocal>>, b |-> <<ConstIncoming>>,
           lines |-> Block(<<ConstLocal>>, <<ConstIncoming>>)],
          [block |-> TRUE, a |-> <<ConstLocal>>, b |-> <<ConstOther>>,
           lines |-> Block(<<ConstLocal>>, <<ConstOther>>)] >>
  /\ call.args.nl
  /\ call.ret.changed
  /\ SubSeq(call.ret.text, 2, 6) = Block(<<ConstLocal>>, <<ConstOther>>)

\* The line begins with seven '<'.
BeginsWithOpen(line) == line.k = "open" /\ line.name # "quoted"

\* C23: stillHasConflicts is true exactly when a line that begins with seven
\* '<' is left in the output text.
C23_StillHasConflictsIffOpeningMarkerLeft ==
  Resolved =>
    (call.ret.stillHasConflicts
       <=> \E n \in 1..Len(call.ret.text) : BeginsWithOpen(call.ret.text[n]))

\* The lines of the three markers of the block that is piece n.
MarkersOf(n) ==
  <<LinesBefore(n) + 1,
    LinesBefore(n) + Len(call.args.pieces[n].a) + 2,
    LinesBefore(n) + Len(call.args.pieces[n].lines)>>

\* C24: every block of the text is a match of the resolver's pattern: its
\* opening marker, its separator and its closing marker are those of a match,
\* wherever the block is in the text, also at the end of a text without a final
\* newline and with an empty side.
C24_EveryCanonicalBlockIsMatched ==
  Resolved =>
    \A n \in Blocks :
      MarkersOf(n) \in ResolveFrom(call.args.text, call.args.nl, 1).matches

----------------------------------------------------------------------------
(* Properties of the diff engine *)

\* diffLines has been called on its own and has returned.
Diffed == call.fn = "diffLines" /\ call.done

\* C25: the diff of a text with itself has no hunk, for every context size.
C25_DiffOfTextWithItselfIsEmpty ==
  (Diffed /\ call.args.oldText = call.args.newText) => call.ret = <<>>

\* The diff of a three-line text with itself has been computed.
C25_Witness ==
  /\ Diffed
  /\ call.args.oldText = call.args.newText
  /\ call.args.oldText = [lines |-> <<P("a"), P("b"), P("a")>>, nl |-> TRUE]
  /\ call.args.contextLines = 2
  /\ call.ret = <<>>

----------------------------------------------------------------------------
(* Properties of add button and of --dry-run *)

\* C26: after an install (from a directory without the component, or over an
\* installed one) the installed record is the version, the style and the output
\* location of the install, every generated artifact file holds its generated
\* text, the snapshot store holds the generated text of every artifact at that
\* version, and the record is the last write of the command.
C26_InstallWritesArtifactsSnapshotsThenRecord ==
  (pc = "idle" /\ run.cmd = "add" /\ outcome = "installed") =>
    /\ run.to \in VersionSet /\ run.style \in Styles
    /\ Installed(st) = [version |-> run.to, style |-> run.style, outDir |-> run.outDir]
    /\ \A n \in 1..Len(GeneratedFor(run.to, run.style)) :
         LET f == GeneratedFor(run.to, run.style)[n]
         IN  /\ files[<<run.outDir, f.name>>] = f.content
             /\ base[<<run.to, f.name>>] = f.content
             /\ \E m \in 1..Len(log) : log[m] = W("file", "", f.name)
             /\ \E m \in 1..Len(log) : log[m] = W("snapshot", run.to, f.name)
    /\ log[Len(log)] = W("state", "", "")
    /\ \A m \in 1..(Len(log) - 1) : log[m].kind # "state"

\* An install over an installed component whose Button.tsx the user had edited.
C26_Witness ==
  /\ pc = "idle" /\ run.cmd = "add" /\ outcome = "installed"
  /\ Installed(pre.st) # NoInst
  /\ pre.files[<<run.outDir, "Button.tsx">>] # Absent
  /\ pre.files[<<run.outDir, "Button.tsx">>]
       # pre.base[<<Installed(pre.st).version, "Button.tsx">>]
  /\ pre.files[<<run.outDir, "Button.tsx">>] # files[<<run.outDir, "Button.tsx">>]

\* C27: a step of add or upgrade with --dry-run changes no artifact file and no
\* base snapshot and leaves the installed record as it was.
C27_DryRunWritesNothing ==
  [][(\/ \E a \in AddInputs :
          a.dry /\ AddCmd(a.style, a.version, a.dry, a.force, a.interactive)
      \/ \E u \in UpgradeInputs : u.dry /\ UpgradeCmd(u.to, u.dry, u.interactive))
     => /\ files' = files
        /\ base' = base
        /\ Installed(st') = Installed(st)]_vars

\* A dry run has ended over an installed component with a local edit.
C27_Witness ==
  /\ pc = "idle" /\ outcome = "dryRun"
  /\ Installed(st) # NoInst
  /\ files[<<Installed(st).outDir, "Button.tsx">>] # Absent
  /\ files[<<Installed(st).outDir, "Button.tsx">>]
       # base[<<Installed(st).version, "Button.tsx">>]

\* C28: an add that names a version without a contract, and an upgrade of an
\* installed component to such a version, end with the contract-not-found
\* error; no command that names such a version changes an artifact file, a base
\* snapshot or the installed record.
C28_UnknownVersionFailsBeforeWrites ==
  [][/\ (\E a \in AddInputs :
           /\ a.version \notin VersionSet \cup {"unset"}
           /\ AddCmd(a.style, a.version, a.dry, a.force, a.interactive))
        => /\ outcome' = "contractNotFound"
           /\ files' = files /\ base' = base /\ Installed(st') = Installed(st)
     /\ (\E u \in UpgradeInputs :
           /\ u.to \notin VersionSet \cup {"unset"}
           /\ UpgradeCmd(u.to, u.dry, u.interactive))
        => /\ Installed(st) # NoInst => outcome' = "contractNotFound"
           /\ pc' = "idle"
           /\ files' = files /\ base' = base /\ Installed(st') = Installed(st)]_vars

\* An upgrade of an installed component has ended with the contract-not-found
\* error.
C28_Witness ==
  /\ pc = "idle" /\ run.cmd = "upgrade" /\ outcome = "contractNotFound"
  /\ Installed(st) # NoInst

----------------------------------------------------------------------------
(* Properties of contractToButtonIR *)

Converted == call.fn = "contractToButtonIR" /\ call.done

\* The default a contract declares for a prop, if it declares one.
DeclaredDefault(contract, prop) ==
  IF contract.props = None THEN None
  ELSE IF contract.props[1][prop] = None THEN None
  ELSE contract.props[1][prop][1].default

\* The a11y field a contract declares, if it declares it.
DeclaredA11y(contract, field) ==
  IF contract.a11y = None THEN None ELSE contract.a11y[1][field]

FallbackDefaults ==
  [variant |-> "solid", size |-> "md", disabled |-> FALSE, loading |-> FALSE]

FallbackA11y ==
  [defaultType |-> "button", busyAttribute |-> "aria-busy", loadingDisables |-> FALSE]

\* C29: hasLoading is true exactly when the contract declares a loading prop,
\* every declared default is copied, and every absent default and every absent
\* a11y field gets its fallback: variant solid, size md, disabled false,
\* loading false, defaultType button, busyAttribute aria-busy, loadingDisables
\* false.
C29_IRCopiesDefaultsAndFillsAbsentFields ==
  Converted =>
    LET contract == call.args.contract
        ir == call.ret
    IN  /\ ir.hasLoading <=> (contract.props # None /\ contract.props[1].loading # None)
        /\ \A prop \in DOMAIN FallbackDefaults :
             ir.defaults[prop] = IF DeclaredDefault(contract, prop) = None
                                 THEN FallbackDefaults[prop]
                                 ELSE DeclaredDefault(contract, prop)[1]
        /\ \A field \in DOMAIN FallbackA11y :
             DeclaredA11y(contract, field) = None
               => ir.a11y[field] = FallbackA11y[field]

\* A contract whose loading prop declares no default, with a declared variant
\* and no size and no a11y object.
C29_Witness ==
  /\ Converted
  /\ call.args.contract.props # None
  /\ call.args.contract.props[1].loading = Some([default |-> None])
  /\ call.args.contract.props[1].variant = Some([default |-> Some("ghost")])
  /\ call.args.contract.props[1].size = None
  /\ call.args.contract.a11y = None
  /\ call.ret.hasLoading
  /\ call.ret.defaults.variant = "ghost"
  /\ call.ret.defaults.size = "md"
  /\ call.ret.a11y.busyAttribute = "aria-busy"

----------------------------------------------------------------------------
(* Properties of a retried upgrade *)

\* An upgrade has ended that was run again, to the same version, after the
\* user resolved the conflicts an incomplete upgrade had left, and git ran for
\* every artifact it merged.
RetryEnded ==
  /\ pc = "idle" /\ run.cmd = "upgrade"
  /\ pre.resolvedFor # "none"
  /\ \A n \in 1..Len(results) : results[n].gitRan
  /\ \A key \in DOMAIN pre.files :
       \A n \in 1..Len(pre.files[key]) : pre.files[key][n].k \notin {"open", "sep", "close"}

\* C30: an upgrade that is run again to the same version after the user
\* resolved every conflict of the incomplete upgrade, in whatever way, is
\* complete and the installed version is the target version.
C30_RetryAfterResolutionCompletes ==
  RetryEnded =>
    /\ outcome = "complete"
    /\ Installed(st).version = pre.resolvedFor

----------------------------------------------------------------------------
(* Properties of merge3: regions both sides change *)

\* The base lines a or b and those between them.
Between(a, b) == Min(a, b)..Max(a, b)

\* The maximal region of base that line n is in: n and the edited lines that
\* no kept line parts from it.
RegionOf(x, n) ==
  {m \in 1..x.len :
     \/ m = n
     \/ /\ x.pad = 0
        /\ Between(m, n) \subseteq (Edited3(x.eL) \cup Edited3(x.eI))}

\* What a side makes of the lines R of base, from line n on.
RECURSIVE Replacement(_, _, _, _, _)
Replacement(x, e, side, R, n) ==
  IF n > x.len THEN <<>>
  ELSE (IF n \in R THEN EditLine(e[n], x.marked, side, n) ELSE <<>>)
       \o Replacement(x, e, side, R, n + 1)

\* Both sides change the region R and their replacements are the same text.
ChangedAlike(x, R) ==
  /\ R \cap Edited3(x.eL) # {}
  /\ R \cap Edited3(x.eI) # {}
  /\ Replacement(x, x.eL, "local", R, 1) = Replacement(x, x.eI, "incoming", R, 1)

\* Every region is changed by one side only, or by both alike.
NoDifferingRegion(x) ==
  \A n \in Edited3(x.eL) \cup Edited3(x.eI) :
    \/ RegionOf(x, n) \cap Edited3(x.eL) = {}
    \/ RegionOf(x, n) \cap Edited3(x.eI) = {}
    \/ ChangedAlike(x, RegionOf(x, n))

\* Base with every region replaced by what the side that changed it made of
\* it, from line n on.
RECURSIVE TakeChanged(_, _)
TakeChanged(x, n) ==
  IF n > x.len THEN <<>>
  ELSE (IF RegionOf(x, n) \cap Edited3(x.eL) # {}
        THEN EditLine(x.eL[n], x.marked, "local", n)
        ELSE EditLine(x.eI[n], x.marked, "incoming", n))
       \o Fill(n, x.len, x.pad)
       \o TakeChanged(x, n + 1)

\* Line m of t is on a side of a conflict block that git emitted.
InBlock(t, m) ==
  \E o \in 1..(m - 1) :
    /\ t[o].k = "open" /\ t[o].name # "quoted"
    /\ \A c \in (o + 1)..(m - 1) : t[c].k # "close"

\* The line both sides write is written in regions they change alike only.
SameOnlyAlike(x) ==
  \A n \in 1..x.len :
    (x.eL[n] = "same" \/ x.eI[n] = "same") => ChangedAlike(x, RegionOf(x, n))

\* C31: when both sides change a region of base and their replacements are the
\* same text, merge3 takes the replacement once and no conflict block holds
\* it, whatever the other regions are; when no other region is changed by both
\* sides differently, git emits no conflict block at all and hasConflicts is
\* raised only if the merged text itself holds the characters of an opening
\* marker.
C31_IdenticalReplacementsTakenOnce ==
  (/\ Merged
   /\ \E n \in 1..call.args.len : ChangedAlike(call.args, RegionOf(call.args, n))) =>
    /\ (SameOnlyAlike(call.args) /\ ~call.ret.threw) =>
         /\ Cardinality({m \in 1..Len(call.ret.mergedText) :
                           call.ret.mergedText[m] = P("both")})
              = Cardinality({n \in 1..call.args.len : call.args.eL[n] = "same"})
         /\ \A m \in 1..Len(call.ret.mergedText) :
              call.ret.mergedText[m] = P("both") => ~InBlock(call.ret.mergedText, m)
    /\ NoDifferingRegion(call.args) =>
         /\ ~call.ret.threw
         /\ call.ret.status = 0
         /\ call.ret.mergedText = TakeChanged(call.args, 1)
         /\ call.ret.hasConflicts => IncludesOpenMarker(TakeChanged(call.args, 1))

\* Both sides replaced lines 1 and 2 of a three-line base by one and the same
\* line, local by deleting line 2 and incoming by deleting line 1, and both
\* kept line 3.
C31_Witness ==
  /\ Merged
  /\ call.args.len = 3 /\ call.args.pad = 0 /\ ~call.args.marked
  /\ call.args.eL = <<"same", "del", "keep">>
  /\ call.args.eI = <<"del", "same", "keep">>
  /\ call.ret.mergedText = <<P("both"), P("3")>>
  /\ ~call.ret.hasConflicts

----------------------------------------------------------------------------
(* Properties of the resolver: several blocks *)

\* The text is two or more conflict blocks and nothing else, and ends with a
\* newline.
SeveralBlocks ==
  /\ call.args.nl
  /\ Blocks = DOMAIN call.args.pieces
  /\ Cardinality(Blocks) >= 2

\* The line of the output where the block that is piece n begins, every
\* qualifying block before it being one line there.
PlaceOf(n) == LinesBefore(n) - 4 * Cardinality({m \in Qualifying : m < n}) + 1

\* C32: in a text of several conflict blocks every qualifying block is
\* replaced by its one line whatever the other blocks are (one with an empty
\* side or with a side of two lines among them), and changed = true and
\* stillHasConflicts = true when some blocks qualify and others do not.
C32_EachBlockOnItsOwnSides ==
  (Resolved /\ SeveralBlocks) =>
    /\ \A n \in Qualifying :
         /\ PlaceOf(n) <= Len(call.ret.text)
         /\ call.ret.text[PlaceOf(n)] = ResolvedLine(call.args.pieces[n])
    /\ (Qualifying # {} /\ Blocks \ Qualifying # {}) =>
         /\ call.ret.changed
         /\ call.ret.stillHasConflicts

----------------------------------------------------------------------------
(* Properties of upgrade to the installed version and of add over an       *)
(* installed component                                                     *)

\* C33: an upgrade whose target is the installed version ends at once, not as
\* a failure, without a merge and without a write to an artifact file, a base
\* snapshot or the state record.
C33_UpgradeToInstalledVersionIsNoOp ==
  [][(\E u \in UpgradeInputs :
        /\ Installed(st) # NoInst
        /\ u.to = Installed(st).version
        /\ UpgradeCmd(u.to, u.dry, u.interactive))
     => /\ pc' = "idle"
        /\ outcome' = "nothingToDo"
        /\ ~ExitsWithFailure(outcome')
        /\ results' = <<>>
        /\ log' = <<>>
        /\ files' = files /\ base' = base /\ st' = st]_vars

\* An upgrade to the installed version has ended over a component with a
\* local edit.
C33_Witness ==
  /\ pc = "idle" /\ run.cmd = "upgrade" /\ outcome = "nothingToDo"
  /\ Installed(st) # NoInst
  /\ files[<<Installed(st).outDir, "Button.tsx">>] # Absent
  /\ files[<<Installed(st).outDir, "Button.tsx">>]
       # base[<<Installed(st).version, "Button.tsx">>]

\* C34: over an installed component, a step of add writes artifact files,
\* snapshots or the record only as an install with --force or by the
\* interactive user's choice; without --force, without --dry-run and without a
\* terminal it changes nothing and ends with a failure status; when the
\* interactive user cancels it changes nothing.
C34_AddOverInstalledNeedsForceOrChoice ==
  [][\A a \in AddInputs :
       (/\ Installed(st) # NoInst
        /\ AddCmd(a.style, a.version, a.dry, a.force, a.interactive))
       => /\ (files' # files \/ base' # base \/ st' # st)
               => (outcome' = "installed" /\ (a.force \/ a.interactive))
          /\ outcome' = "installed" => (a.force \/ a.interactive)
          /\ (~a.force /\ ~a.dry /\ ~a.interactive)
               => /\ ExitsWithFailure(outcome')
                  /\ pc' = "idle"
                  /\ files' = files /\ base' = base /\ st' = st /\ cfg' = cfg
          /\ outcome' = "cancelled"
               => files' = files /\ base' = base /\ st' = st /\ cfg' = cfg]_vars

\* An add without --force has been refused over a component with a local edit.
C34_Witness ==
  /\ pc = "idle" /\ run.cmd = "add" /\ outcome = "alreadyInstalled"
  /\ Installed(st) # NoInst
  /\ files[<<Installed(st).outDir, "Button.tsx">>] # Absent
  /\ files[<<Installed(st).outDir, "Button.tsx">>]
       # base[<<Installed(st).version, "Button.tsx">>]

\* The interactive user has cancelled an add over an installed component.
C34_CancelReached ==
  /\ pc = "idle" /\ run.cmd = "add" /\ outcome = "cancelled"
  /\ Installed(st) # NoInst

----------------------------------------------------------------------------
(* Properties of the diff engine: alignment, hunks and counts *)

\* The alignment of the two texts of the call, before grouping.
AlignmentOfCall == Alignment(Split(call.args.oldText), Split(call.args.newText))

\* The place of a line in an alignment: a remove line is told from the others
\* by its type and from the other remove lines by its old number, an add or
\* context line from the others by its new number.
IndexOf(diff, line) == CHOOSE i \in 1..Len(diff) : diff[i] = line

\* The 1-based position in the new text at which the line at place i of the
\* alignment stands: one more than the new lines emitted before it.
PlaceInNew(diff, i) == 1 + Cardinality({j \in 1..(i - 1) : diff[j].type # "remove"})

\* The hunks of the call that begin with a line of the type.
HunksBeginningWith(types) ==
  {h \in 1..Len(call.ret) : call.ret[h].lines[1].type \in types}

StartsAtPlaceInNew(diff, h) ==
  call.ret[h].startLine = PlaceInNew(diff, IndexOf(diff, call.ret[h].lines[1]))

\* C35: the startLine of every hunk is the 1-based position in the new text of
\* the hunk's first line, whether that line is a context, an add or a remove
\* line.
C35_StartLineIsPlaceInNewText ==
  Diffed =>
    LET Holds(diff) == \A h \in 1..Len(call.ret) : StartsAtPlaceInNew(diff, h)
    IN  Holds(AlignmentOfCall)

\* The same for the hunks that begin with a context or an add line.
C35_HoldsUnlessFirstLineIsRemoved ==
  Diffed =>
    LET Holds(diff) ==
          \A h \in HunksBeginningWith({"context", "add"}) : StartsAtPlaceInNew(diff, h)
    IN  Holds(AlignmentOfCall)

\* A hunk that begins with a remove line starts at that line's number in the
\* old text.
C35_RemovedFirstLineGivesOldNumber ==
  Diffed =>
    LET Holds(diff) ==
          \A h \in HunksBeginningWith({"remove"}) :
            /\ call.ret[h].lines[1].content
                 = Split(call.args.oldText)[call.ret[h].startLine]
            /\ call.ret[h].startLine
                 = 1 + Cardinality({j \in 1..(IndexOf(diff, call.ret[h].lines[1]) - 1) :
                                      diff[j].type # "add"})
    IN  Holds(AlignmentOfCall)

\* The hunks of the call that hold the line at place c of the alignment.
HunksHolding(diff, c) ==
  {h \in 1..Len(call.ret) :
     \E n \in 1..Len(call.ret[h].lines) : call.ret[h].lines[n] = diff[c]}

\* The places in the alignment of the first and of the last line of a hunk.
FirstPlace(diff, h) == IndexOf(diff, call.ret[h].lines[1])
LastPlace(diff, h) == IndexOf(diff, call.ret[h].lines[Len(call.ret[h].lines)])

\* The places of the changes that lie in a hunk.
ChangesIn(diff, h) ==
  {c \in FirstPlace(diff, h)..LastPlace(diff, h) : diff[c].type # "context"}

Least(S) == CHOOSE x \in S : \A y \in S : x <= y
Greatest(S) == CHOOSE x \in S : \A y \in S : x >= y

\* Two consecutive changes at places c and d of an alignment, for context
\* size k: the window of d begins no later than right after the window that
\* ends k lines after c.
Touches(diff, k, c, d) == Max(1, d - k) <= Min(Len(diff), c + k) + 1

\* C36: two consecutive changes of the alignment are in one hunk exactly when
\* the later change's context-expanded start is at most the end of the current
\* window plus one; every hunk is the part of the alignment from k lines
\* before its first change to k lines after its last change, clipped to the
\* alignment; the hunks are in increasing order and no two overlap.
C36_HunksAreJoinedWindows ==
  Diffed =>
    LET Holds(diff, ch, k) ==
          /\ \A i \in 1..(Len(ch) - 1) :
                (HunksHolding(diff, ch[i]) \cap HunksHolding(diff, ch[i + 1]) # {})
                  <=> Touches(diff, k, ch[i], ch[i + 1])
          /\ \A h \in 1..Len(call.ret) :
                /\ call.ret[h].lines
                     = SubSeq(diff, FirstPlace(diff, h), LastPlace(diff, h))
                /\ ChangesIn(diff, h) # {}
                /\ FirstPlace(diff, h) = Max(1, Least(ChangesIn(diff, h)) - k)
                /\ LastPlace(diff, h) = Min(Len(diff), Greatest(ChangesIn(diff, h)) + k)
          /\ \A h \in 1..(Len(call.ret) - 1) :
                LastPlace(diff, h) < FirstPlace(diff, h + 1)
    IN  Holds(AlignmentOfCall, ChangeIndices(AlignmentOfCall, 1), call.args.contextLines)

\* With context size 1, two changes with two context lines between them have
\* been put in one hunk: the later window begins right after the earlier one
\* ends.
C36_Witness ==
  /\ Diffed
  /\ call.args.contextLines = 1
  /\ Len(call.ret) = 1
  /\ LET Reached(diff, ch) ==
           \E i \in 1..(Len(ch) - 1) :
             /\ ch[i + 1] - 1 = ch[i] + 1 + 1
             /\ HunksHolding(diff, ch[i]) = {1}
             /\ HunksHolding(diff, ch[i + 1]) = {1}
     IN  Reached(AlignmentOfCall, ChangeIndices(AlignmentOfCall, 1))

\* With context size 0, a call has returned two hunks, one of them of two
\* changes next to each other.
C36_TwoHunksReached ==
  /\ Diffed
  /\ call.args.contextLines = 0
  /\ Len(call.ret) = 2
  /\ \E h \in 1..2 : Len(call.ret[h].lines) = 2

\* The number of lines of a type in an alignment.
CountInAlignment(diff, type) == Cardinality({c \in 1..Len(diff) : diff[c].type = type})

\* How often the line at place c of the alignment occurs in hunk h.
TimesIn(diff, c, h) ==
  Cardinality({n \in 1..Len(call.ret[h].lines) : call.ret[h].lines[n] = diff[c]})

\* C37: every add and every remove line of the alignment is in exactly one
\* hunk, once; so the counts of the hunks are the number of new lines without
\* a matched old line and the number of old lines without a matched new line,
\* and they are the same for every context size.
C37_StatsCountUnmatchedLines ==
  Diffed =>
    LET Holds(oldLines, newLines, diff, lcs) ==
          /\ \A c \in 1..Len(diff) :
                diff[c].type # "context" =>
                  /\ Cardinality(HunksHolding(diff, c)) = 1
                  /\ \A h \in HunksHolding(diff, c) : TimesIn(diff, c, h) = 1
          /\ DiffStats(call.ret)
               = [additions |-> Len(newLines) - Len(lcs),
                  deletions |-> Len(oldLines) - Len(lcs)]
          /\ DiffStats(call.ret)
               = [additions |-> CountInAlignment(diff, "add"),
                  deletions |-> CountInAlignment(diff, "remove")]
          /\ \A k \in 0..MaxContext :
                DiffStats(GroupIntoHunks(diff, k)) = DiffStats(call.ret)
    IN  Holds(Split(call.args.oldText), Split(call.args.newText), AlignmentOfCall,
              ComputeLCS(Split(call.args.oldText), Split(call.args.newText)))

\* With context size 0 a call has returned two hunks that leave out context
\* lines of the alignment, and their counts are one addition and two
\* deletions.
C37_Witness ==
  /\ Diffed
  /\ call.args.contextLines = 0
  /\ Len(call.ret) = 2
  /\ CountInAlignment(AlignmentOfCall, "context") >= 1
  /\ DiffStats(call.ret) = [additions |-> 1, deletions |-> 2]

\* The lines of a sequence at the places of a set, in order.
RECURSIVE LinesAt(_, _, _)
LinesAt(lines, S, i) ==
  IF i > Len(lines) THEN <<>>
  ELSE (IF i \in S THEN <<lines[i]>> ELSE <<>>) \o LinesAt(lines, S, i + 1)

\* Whether the two line sequences have a common subsequence of n lines.
HasCommonSubsequence(oldLines, newLines, n) ==
  \E olds \in {S \in SUBSET (1..Len(oldLines)) : Cardinality(S) = n} :
    \E news \in {S \in SUBSET (1..Len(newLines)) : Cardinality(S) = n} :
      LinesAt(oldLines, olds, 1) = LinesAt(newLines, news, 1)

\* How often a diff line occurs in an alignment.
TimesEmitted(diff, line) == Cardinality({c \in 1..Len(diff) : diff[c] = line})

\* C38: the pairs of the alignment increase strictly in the old and in the new
\* index, each pair names two equal lines, and the two line sequences have no
\* common subsequence that is longer; every old line outside the pairs is
\* emitted once as a remove line, every new line outside the pairs once as an
\* add line, every pair once as a context line, and nothing else is emitted.
C38_AlignmentIsLongestCommonSubsequence ==
  Diffed =>
    LET Holds(oldLines, newLines, lcs, diff) ==
          /\ \A p \in 1..Len(lcs) :
                /\ lcs[p][1] \in 1..Len(oldLines)
                /\ lcs[p][2] \in 1..Len(newLines)
                /\ oldLines[lcs[p][1]] = newLines[lcs[p][2]]
          /\ \A p \in 1..(Len(lcs) - 1) :
                /\ lcs[p][1] < lcs[p + 1][1]
                /\ lcs[p][2] < lcs[p + 1][2]
          /\ ~HasCommonSubsequence(oldLines, newLines, Len(lcs) + 1)
          /\ \A i \in 1..Len(oldLines) :
                TimesEmitted(diff, DiffLine("remove", oldLines[i], i))
                  = IF \E p \in 1..Len(lcs) : lcs[p][1] = i THEN 0 ELSE 1
          /\ \A j \in 1..Len(newLines) :
                /\ TimesEmitted(diff, DiffLine("add", newLines[j], j))
                     = IF \E p \in 1..Len(lcs) : lcs[p][2] = j THEN 0 ELSE 1
                /\ TimesEmitted(diff, DiffLine("context", newLines[j], j))
                     = IF \E p \in 1..Len(lcs) : lcs[p][2] = j THEN 1 ELSE 0
          /\ Len(diff) = Len(oldLines) + Len(newLines) - Len(lcs)
    IN  Holds(Split(call.args.oldText), Split(call.args.newText),
              ComputeLCS(Split(call.args.oldText), Split(call.args.newText)),
              AlignmentOfCall)

\* Two texts of three lines with more than one longest common subsequence
\* have been aligned: two pairs, which with the empty last lines make three,
\* one line removed and one added.
C38_Witness ==
  /\ Diffed
  /\ call.args.oldText = [lines |-> <<P("a"), P("b"), P("a")>>, nl |-> TRUE]
  /\ call.args.newText = [lines |-> <<P("b"), P("a"), P("b")>>, nl |-> TRUE]
  /\ Len(ComputeLCS(Split(call.args.oldText), Split(call.args.newText))) = 3
  /\ CountInAlignment(AlignmentOfCall, "remove") = 1
  /\ CountInAlignment(AlignmentOfCall, "add") = 1

----------------------------------------------------------------------------
(* Properties of the resolver applied to its own result *)

\* The resolver has been called on a text and then on the text it returned.
ResolvedTwice == call.fn = "resolveAgain" /\ call.done

\* An assignment of the text given holds seven '<' in its string value.
MarkerInValue ==
  \E n \in 1..Len(call.args.text) :
    call.args.text[n].k = "const" /\ HasOpenMarker(call.args.text[n])

\* C39: resolving the text that the resolver returned gives that text again,
\* with changed = false and the same stillHasConflicts.
C39_ResolverIsIdempotent ==
  ResolvedTwice =>
    /\ call.ret[2].text = call.ret[1].text
    /\ ~call.ret[2].changed
    /\ call.ret[2].stillHasConflicts = call.ret[1].stillHasConflicts

\* The same for the texts in which no string value holds seven '<'.
C39_HoldsWithoutMarkerInValue ==
  (ResolvedTwice /\ ~MarkerInValue) =>
    /\ call.ret[2].text = call.ret[1].text
    /\ ~call.ret[2].changed
    /\ call.ret[2].stillHasConflicts = call.ret[1].stillHasConflicts

\* A block has been resolved by the first call and the second call has found
\* nothing to do.
C39_SecondCallIdleReached ==
  /\ ResolvedTwice
  /\ call.ret[1].changed
  /\ call.ret[1].stillHasConflicts
  /\ ~call.ret[2].changed
  /\ call.ret[2].text = call.ret[1].text

\* The first call has written a line that holds seven '<', and the second has
\* resolved a block that opens in that line.
C39_SecondCallResolvesReached ==
  /\ ResolvedTwice
  /\ call.args.pieces
       = <<[block |-> TRUE, a |-> <<ConstMarked>>, b |-> <<ConstIncoming>>,
            lines |-> Block(<<ConstMarked>>, <<ConstIncoming>>)],
           [block |-> FALSE, a |-> <<ConstLocal>>, b |-> <<ConstIncoming>>,
            lines |-> Unopened(<<ConstLocal>>, <<ConstIncoming>>)]>>
  /\ call.args.nl
  /\ call.ret[1].changed /\ call.ret[1].stillHasConflicts
  /\ Len(call.ret[1].text) = 5
  /\ call.ret[2].changed /\ ~call.ret[2].stillHasConflicts
  /\ Len(call.ret[2].text) = 1

====
